---------------------------- MODULE Spec2Model ----------------------------
(***************************************************************************)
(* A model of MLDB's mapped serialization core (memory_region.cc):         *)
(*   - FileSerializer: arenas over one growing file, bump allocation,      *)
(*     in-place mremap growth with fallback to a fresh arena, commit;      *)
(*   - MemorySerializer / EntrySerializer, FrozenMemoryRegion;             *)
(*   - ZipStructuredSerializer and ZipStructuredReconstituter.             *)
(* FileSpec drives the FileSerializer from several threads; ZipSpec        *)
(* drives the container writer and reader.                                 *)
(***************************************************************************)
EXTENDS Integers, Sequences, FiniteSets, TLC

(***************************************************************************)
(* Bounds of the model.                                                    *)
(***************************************************************************)
\* log2 of the platform page size (mldb/arch/vm.h's page_size, scaled down)
PageShift == 4
\* threads sharing one FileSerializer
NumThreads == 2
\* allocate_writable calls over the life of the FileSerializer
MaxCalls == 2
\* commit calls over the life of the FileSerializer
MaxCommits == 1
\* system calls (ftruncate, mmap, mremap) the kernel may fail
MaxSyscallFailures == 1
\* candidate base addresses the kernel may return from mmap
NumSlots == 2
\* distance, in pages, between two candidate base addresses
SlotPages == 16385
\* sub-structures made with newStructure
MaxStructs == 1
\* leaf serializers made with newEntry
MaxEntries == 2
\* leaf serializers alive at the same time
MaxLive == 1
\* regions allocated from one leaf serializer
MaxRegions == 2
\* bytes of one region of a leaf serializer
MaxPayloadLen == 1
\* bytes of a local file header of the archive, before the entry's name
HdrLen == 2
\* threads destroying leaf serializers of one tree at the same time
NumFinalizers == 2
\* bytes of a region that is sliced or read as a stream
MaxSliceLen == 3
\* bits of a size_t (scaled down)
SizeBits == 5
\* how far outside 0 .. length a caller's slice bound or seek offset goes,
\* and how far outside the region seeks are followed
MaxSeek == 2

(***************************************************************************)
(* Program constants.                                                      *)
(***************************************************************************)
page_size == 2 ^ PageShift
\* sizeof(void *)
PointerSize == 8
\* minimum number of pages of a new arena
MinArenaPages == 1024
\* the factor of page_size in expandLastArena's minimum growth
ExpandFactor == 10000

Threads == 1 .. NumThreads

\* the (bytesRequired, alignment) requests the threads draw from
Requests ==
    { <<0, 1>>, <<1, 1>>, <<3, 8>>, <<1, 2 * page_size>>,
      <<(ExpandFactor + MinArenaPages) * page_size, 8>> }

VARIABLES
    \* ---- FileSerializer::Itl
    fileLen,              \* st_size of fd
    currentlyAllocated,   \* Itl::currentlyAllocated
    arenas,               \* Itl::arenas, a sequence of Arena records
    capacity,             \* arenas.capacity()
    mutex,                \* Itl::mutex: 0 when free, else the holding thread
    destroyed,            \* ~Itl has run
    \* ---- the kernel's view of the process
    mappings,             \* the live mappings, a set of [addr, length]
    \* ---- the calling threads
    pc, req, tmp, result,
    \* ---- history
    returned,             \* the regions handed to callers, in order of return
    calls, commits, failures,
    sumBytes, sumPad, sumWaste,
    \* ---- ZipStructuredSerializer
    structs,              \* the RelativeItl objects: [parent, relativePath]
    entries,              \* the EntrySerializer objects
    regions,              \* the MutableMemoryRegions handed out by them
    mem,                  \* heap memory: address -> byte
    heapTop,              \* the heap's next free address
    archive,              \* the entries written to BaseItl::a, in order
    closed,               \* ~BaseItl has closed the archive
    crashed,              \* a destructor threw: std::terminate
    \* ---- ZipStructuredReconstituter
    reader,               \* Itl: [state, region, index]
    \* ---- further clients of the serializers
    objects,              \* the newObject calls made: [itl, name, printed, entry]
    committed,            \* commit() has returned on the root serializer
    streams,              \* the SerializerStreamHandlers: [owner, buf, state]
    writers,              \* the threads destroying leaf serializers
    wire,                 \* the calls libarchive received, in order
    sliced,               \* the last FrozenMemoryRegion::range calls and results
    rdbuf,                \* a ReconstituteStreamHandler: its get area
    \* ---- shared handles over backing storage
    blocks,               \* the heap blocks and file mappings made, in order
    copies,               \* the region objects made, each holding a handle
    \* ---- TabularDatasetColumn
    minRowNumber, maxRowNumber, isFrozen,
    sparseIndexes,        \* a sequence of << row - minRowNumber, index >>
    indexedVals,          \* a sequence of values
    lastValue,
    valueIndex,           \* hash -> index
    added                 \* the calls made, in order: [row, val, outcome]

fileVars ==
    << fileLen, currentlyAllocated, arenas, capacity, mutex, destroyed,
       mappings, pc, req, tmp, result, returned, calls, commits, failures,
       sumBytes, sumPad, sumWaste >>

zipVars ==
    << structs, entries, regions, mem, heapTop, archive, closed, crashed,
       reader >>

extVars == << objects, committed, streams, writers, wire, sliced, rdbuf >>

handleVars == << blocks, copies >>

colVars ==
    << minRowNumber, maxRowNumber, isFrozen, sparseIndexes, indexedVals,
       lastValue, valueIndex, added >>

moreVars == << handleVars, colVars >>

vars == << fileVars, zipVars, extVars, moreVars >>

Max(a, b) == IF a >= b THEN a ELSE b

\* FrozenMemoryRegion(handle, data, length)
FrozenMemoryRegion(handle, data, length) ==
    [ handle |-> handle, data |-> data, length |-> length ]

\* FrozenMemoryRegion(): no handle, no data, no length
NullRegion == FrozenMemoryRegion(0, 0, 0)

\* the number of pages holding n bytes: (n + page_size - 1) / page_size
pages(n) == (n + page_size - 1) \div page_size

---------------------------------------------------------------------------
(***************************************************************************)
(* The kernel: mmap, mremap, munmap over the modelled address space.       *)
(***************************************************************************)
SlotAddrs == { s * SlotPages * page_size : s \in 1 .. NumSlots }

Overlaps(a1, l1, a2, l2) == a1 < a2 + l2 /\ a2 < a1 + l1

FreeRange(maps, addr, len) ==
    \A m \in maps : ~Overlaps(addr, len, m.addr, m.length)

\* the addresses mmap(nullptr, len, ...) may return
mmapChoices(maps, len) == { a \in SlotAddrs : FreeRange(maps, a, len) }

\* mremap(addr, oldLen, newLen, 0): without MREMAP_MAYMOVE the mapping grows
\* where it is or the call fails, so this is whether growing in place can work
mremapInPlace(maps, addr, oldLen, newLen) ==
    FreeRange(maps \ { [addr |-> addr, length |-> oldLen] },
              addr, newLen)

munmap(maps, addr, len) == maps \ { [addr |-> addr, length |-> len] }

CanFail == failures < MaxSyscallFailures

---------------------------------------------------------------------------
(***************************************************************************)
(* FileSerializer::Itl::Arena                                              *)
(***************************************************************************)
Arena(addr, startOffset, length) ==
    [ addr |-> addr, startOffset |-> startOffset, length |-> length,
      currentOffset |-> 0 ]

\* Arena(Arena && other): currentOffset is not carried over
ArenaMove(other) == Arena(other.addr, other.startOffset, other.length)

\* a move constructor that leaves `other` owning the mapping
ArenaMovedFrom_KeepsAddr(other) == other

\* what the move constructor leaves in `other`
ArenaMovedFrom(other) == [ other EXCEPT !.addr = 0 ]

\* ~Arena()
ArenaDtor(maps, a) ==
    IF a.addr # 0 THEN munmap(maps, a.addr, a.length) ELSE maps

RECURSIVE DestroyAll(_, _)
DestroyAll(maps, as) ==
    IF as = << >> THEN maps
    ELSE DestroyAll(ArenaDtor(maps, Head(as)), Tail(as))

\* Arena::allocate, its padding
extraBytes(a, alignment) ==
    LET r == a.currentOffset % alignment
    IN  IF r > 0 THEN alignment - r ELSE 0

\* Arena::allocate, its test of the space left
fits(a, bytes, alignment) ==
    ~ (a.currentOffset + bytes + extraBytes(a, alignment) > a.length)

\* Arena::freeSpace
freeSpace(a) == a.length - a.currentOffset

back(as) == as[Len(as)]

\* std::vector<Arena>::emplace_back: a full vector is reallocated to twice
\* its capacity, its elements move-constructed and the old ones destroyed
newCapacity(cap) == IF cap = 0 THEN 1 ELSE 2 * cap

emplace_back(as, cap, a) ==
    IF Len(as) < cap THEN Append(as, a)
    ELSE Append([ i \in 1 .. Len(as) |-> ArenaMove(as[i]) ], a)

emplaceMaps(maps, as, cap) ==
    IF Len(as) < cap THEN maps
    ELSE DestroyAll(maps, [ i \in 1 .. Len(as) |-> ArenaMovedFrom(as[i]) ])

RECURSIVE SumLength(_)
SumLength(as) ==
    IF as = << >> THEN 0 ELSE Head(as).length + SumLength(Tail(as))

---------------------------------------------------------------------------
(***************************************************************************)
(* FileSerializer::Itl                                                     *)
(***************************************************************************)
\* a guard that does not wait for the mutex
lock_NoWait(t) == TRUE

\* std::unique_lock<std::mutex> guard(mutex): can be taken when free
lock(t) == mutex = 0

InCritical == { "try", "bump", "expand", "create", "ret" }

\* verifyLength()
verifyLength == fileLen = currentlyAllocated

\* createNewArena, the length of the new arena
newArenaLength(bytesRequired) ==
    LET numPages == Max(pages(bytesRequired), MinArenaPages)
    IN  Max(numPages, pages(currentlyAllocated) \div 8) * page_size

\* expandLastArena, the new length of the last arena
expandedLength(bytesRequired) ==
    back(arenas).length
        + Max(pages(bytesRequired), ExpandFactor * page_size)

Ok(ptr) == [ kind |-> "ok", ptr |-> ptr ]
Exc(what) == [ kind |-> what, ptr |-> 0 ]
NoResult == [ kind |-> "none", ptr |-> 0 ]

\* FileSerializer::allocateWritable: takes the lock and enters
\* allocateWritableImpl
AllocateWritable(t, bytesRequired, alignment) ==
    /\ ~destroyed
    /\ pc[t] = "idle"
    /\ calls < MaxCalls
    /\ lock(t)
    /\ mutex' = t
    /\ calls' = calls + 1
    /\ req' = [ req EXCEPT ![t] = [ bytes |-> bytesRequired,
                                     alignment |-> alignment ] ]
    /\ IF bytesRequired = 0
         THEN /\ pc' = [ pc EXCEPT ![t] = "ret" ]
              /\ result' = [ result EXCEPT ![t] = Ok(0) ]
         ELSE /\ pc' = [ pc EXCEPT ![t] =
                           IF arenas = << >> THEN "create" ELSE "try" ]
              /\ result' = [ result EXCEPT ![t] = NoResult ]
    /\ UNCHANGED << fileLen, currentlyAllocated, arenas, capacity, destroyed,
                    mappings, tmp, returned, commits, failures,
                    sumBytes, sumPad, sumWaste >>
    /\ UNCHANGED moreVars
    /\ UNCHANGED zipVars
    /\ UNCHANGED extVars

\* arenas.back().allocate(...): the test of the space left and the address
ArenaAllocate(t) ==
    /\ pc[t] = "try"
    /\ LET a == back(arenas)
           e == extraBytes(a, req[t].alignment)
       IN  IF fits(a, req[t].bytes, req[t].alignment)
             THEN /\ tmp' = [ tmp EXCEPT ![t] =
                               [ data |-> a.addr + e + a.currentOffset,
                                 extra |-> e,
                                 offset |-> a.startOffset + e
                                              + a.currentOffset ] ]
                  /\ pc' = [ pc EXCEPT ![t] = "bump" ]
             ELSE /\ pc' = [ pc EXCEPT ![t] = "expand" ]
                  /\ UNCHANGED tmp
    /\ UNCHANGED << fileLen, currentlyAllocated, arenas, capacity, mutex,
                    destroyed, mappings, req, result, returned, calls,
                    commits, failures, sumBytes, sumPad, sumWaste >>
    /\ UNCHANGED moreVars
    /\ UNCHANGED zipVars
    /\ UNCHANGED extVars

\* arenas.back().allocate(...): currentOffset += extraBytes + bytes, and the
\* ExcAssertEqual on the alignment of what it returned
ArenaBump(t) ==
    /\ pc[t] = "bump"
    /\ arenas' = [ arenas EXCEPT ![Len(arenas)].currentOffset =
                       @ + tmp[t].extra + req[t].bytes ]
    /\ sumBytes' = sumBytes + req[t].bytes
    /\ sumPad' = sumPad + tmp[t].extra
    /\ result' = [ result EXCEPT ![t] =
                     IF tmp[t].data % req[t].alignment = 0
                       THEN Ok(tmp[t].data)
                       ELSE Exc("AssertionFailure") ]
    /\ pc' = [ pc EXCEPT ![t] = "ret" ]
    /\ UNCHANGED << fileLen, currentlyAllocated, capacity, mutex, destroyed,
                    mappings, req, tmp, returned, calls, commits, failures,
                    sumWaste >>
    /\ UNCHANGED moreVars
    /\ UNCHANGED zipVars
    /\ UNCHANGED extVars

\* expandLastArena(bytesRequired + alignment)
ExpandLastArena(t) ==
    /\ pc[t] = "expand"
    /\ LET bytesRequired == req[t].bytes + req[t].alignment
           a == back(arenas)
           newLength == expandedLength(bytesRequired)
           grown == currentlyAllocated + newLength - a.length
       IN
       \/ \* verifyLength fails
          /\ ~verifyLength
          /\ result' = [ result EXCEPT ![t] = Exc("AssertionFailure") ]
          /\ pc' = [ pc EXCEPT ![t] = "ret" ]
          /\ UNCHANGED << fileLen, currentlyAllocated, arenas, mappings,
                          failures >>
       \/ \* ftruncate fails
          /\ verifyLength /\ CanFail
          /\ failures' = failures + 1
          /\ result' = [ result EXCEPT ![t] = Exc("IOError") ]
          /\ pc' = [ pc EXCEPT ![t] = "ret" ]
          /\ UNCHANGED << fileLen, currentlyAllocated, arenas, mappings >>
       \/ \* mremap grows the arena where it is
          /\ verifyLength
          /\ mremapInPlace(mappings, a.addr, a.length, newLength)
          /\ fileLen' = grown
          /\ mappings' = (mappings \ { [addr |-> a.addr, length |-> a.length] })
                           \cup { [addr |-> a.addr, length |-> newLength] }
          /\ currentlyAllocated' = grown
          /\ arenas' = [ arenas EXCEPT ![Len(arenas)].length = newLength ]
          /\ pc' = [ pc EXCEPT ![t] = "try" ]
          /\ UNCHANGED << result, failures >>
       \/ \* mremap fails; the expansion of the file is undone
          /\ verifyLength
          /\ \/ ~mremapInPlace(mappings, a.addr, a.length, newLength)
                /\ UNCHANGED failures
             \/ CanFail /\ failures' = failures + 1
          /\ fileLen' = currentlyAllocated
          /\ pc' = [ pc EXCEPT ![t] = "create" ]
          /\ UNCHANGED << currentlyAllocated, arenas, mappings, result >>
       \/ \* mremap fails, and so does the ftruncate that undoes the expansion
          /\ verifyLength /\ CanFail
          /\ ~mremapInPlace(mappings, a.addr, a.length, newLength)
          /\ failures' = failures + 1
          /\ fileLen' = grown
          /\ result' = [ result EXCEPT ![t] = Exc("IOError") ]
          /\ pc' = [ pc EXCEPT ![t] = "ret" ]
          /\ UNCHANGED << currentlyAllocated, arenas, mappings >>
    /\ UNCHANGED << capacity, mutex, destroyed, req, tmp, returned, calls,
                    commits, sumBytes, sumPad, sumWaste >>
    /\ UNCHANGED moreVars
    /\ UNCHANGED zipVars
    /\ UNCHANGED extVars

\* createNewArena(bytesRequired + alignment)
CreateNewArena(t) ==
    /\ pc[t] = "create"
    /\ LET bytesRequired == req[t].bytes + req[t].alignment
           newLength == newArenaLength(bytesRequired)
       IN
       \/ \* verifyLength fails
          /\ ~verifyLength
          /\ result' = [ result EXCEPT ![t] = Exc("AssertionFailure") ]
          /\ pc' = [ pc EXCEPT ![t] = "ret" ]
          /\ UNCHANGED << fileLen, currentlyAllocated, arenas, capacity,
                          mappings, failures, sumWaste >>
       \/ \* ftruncate fails
          /\ verifyLength /\ CanFail
          /\ failures' = failures + 1
          /\ result' = [ result EXCEPT ![t] = Exc("IOError") ]
          /\ pc' = [ pc EXCEPT ![t] = "ret" ]
          /\ UNCHANGED << fileLen, currentlyAllocated, arenas, capacity,
                          mappings, sumWaste >>
       \/ \* mmap fails after ftruncate has grown the file
          /\ verifyLength
          /\ \/ mmapChoices(mappings, newLength) = {} /\ UNCHANGED failures
             \/ CanFail /\ failures' = failures + 1
          /\ fileLen' = currentlyAllocated + newLength
          /\ result' = [ result EXCEPT ![t] = Exc("IOError") ]
          /\ pc' = [ pc EXCEPT ![t] = "ret" ]
          /\ UNCHANGED << currentlyAllocated, arenas, capacity, mappings,
                          sumWaste >>
       \/ \* the new arena is mapped and appended
          /\ verifyLength
          /\ \E addr \in mmapChoices(mappings, newLength) :
               /\ mappings' =
                    emplaceMaps(mappings, arenas, capacity)
                      \cup { [addr |-> addr, length |-> newLength] }
               /\ arenas' = emplace_back(arenas, capacity,
                               Arena(addr, currentlyAllocated, newLength))
          /\ capacity' = IF Len(arenas) < capacity THEN capacity
                         ELSE newCapacity(capacity)
          /\ fileLen' = currentlyAllocated + newLength
          /\ currentlyAllocated' = currentlyAllocated + newLength
          /\ sumWaste' = sumWaste
                + (IF arenas = << >> THEN 0 ELSE freeSpace(back(arenas)))
          /\ pc' = [ pc EXCEPT ![t] = "try" ]
          /\ UNCHANGED << result, failures >>
    /\ UNCHANGED << mutex, destroyed, req, tmp, returned, calls, commits,
                    sumBytes, sumPad >>
    /\ UNCHANGED moreVars
    /\ UNCHANGED zipVars
    /\ UNCHANGED extVars

\* the guard is released and FileSerializer::allocateWritable returns
\* {handle, mem, bytesRequired, this}, or the exception leaves it
AllocateReturn(t) ==
    /\ pc[t] = "ret"
    /\ mutex' = 0
    /\ pc' = [ pc EXCEPT ![t] = "idle" ]
    /\ returned' =
         IF result[t].kind = "ok"
           THEN Append(returned,
                       [ thread |-> t, handle |-> result[t].ptr,
                         data |-> result[t].ptr, length |-> req[t].bytes,
                         bytesRequired |-> req[t].bytes,
                         offset |-> IF req[t].bytes = 0 THEN 0
                                    ELSE tmp[t].offset,
                         state |-> "mutable", frozen |-> NullRegion,
                         alignment |-> req[t].alignment ])
           ELSE returned
    /\ UNCHANGED << fileLen, currentlyAllocated, arenas, capacity, destroyed,
                    mappings, req, tmp, result, calls, commits, failures,
                    sumBytes, sumPad, sumWaste >>
    /\ UNCHANGED moreVars
    /\ UNCHANGED zipVars
    /\ UNCHANGED extVars

\* FileSerializer::freeze
FileFreeze(region) ==
    FrozenMemoryRegion(region.handle, region.data, region.length)

\* MutableMemoryRegion::freeze of a region of the FileSerializer
FreezeReturned(i) ==
    /\ ~destroyed
    /\ returned[i].state = "mutable"
    /\ returned' = [ returned EXCEPT ![i].state = "frozen",
                                      ![i].frozen = FileFreeze(returned[i]) ]
    /\ UNCHANGED << fileLen, currentlyAllocated, arenas, capacity, mutex,
                    destroyed, mappings, pc, req, tmp, result, calls,
                    commits, failures, sumBytes, sumPad, sumWaste >>
    /\ UNCHANGED moreVars
    /\ UNCHANGED zipVars
    /\ UNCHANGED extVars

\* a realLength that forgets where the last arena starts in the file
realLength_NoStart(as) == back(as).currentOffset

\* commit's realLength
realLength(as) == back(as).startOffset + back(as).currentOffset

\* FileSerializer::commit
Commit(t) ==
    /\ ~destroyed
    /\ pc[t] = "idle"
    /\ commits < MaxCommits
    /\ lock(t)
    /\ commits' = commits + 1
    /\ \/ /\ arenas = << >>
          /\ UNCHANGED << fileLen, failures >>
       \/ /\ arenas # << >>
          /\ fileLen' = realLength(arenas)
          /\ UNCHANGED failures
       \/ \* ftruncate fails
          /\ arenas # << >> /\ CanFail
          /\ failures' = failures + 1
          /\ UNCHANGED fileLen
    /\ UNCHANGED << currentlyAllocated, arenas, capacity, mutex, destroyed,
                    mappings, pc, req, tmp, result, returned, calls,
                    sumBytes, sumPad, sumWaste >>
    /\ UNCHANGED moreVars
    /\ UNCHANGED zipVars
    /\ UNCHANGED extVars

\* FileSerializer::~FileSerializer, Itl::~Itl
Destroy ==
    /\ ~destroyed
    /\ \A t \in Threads : pc[t] = "idle"
    /\ destroyed' = TRUE
    /\ IF arenas = << >>
         THEN UNCHANGED << fileLen, arenas, mappings >>
         ELSE /\ fileLen' = realLength(arenas)
              /\ mappings' = DestroyAll(mappings, arenas)
              /\ arenas' = << >>
    /\ UNCHANGED << currentlyAllocated, capacity, mutex, pc, req, tmp, result,
                    returned, calls, commits, failures,
                    sumBytes, sumPad, sumWaste >>
    /\ UNCHANGED moreVars
    /\ UNCHANGED zipVars
    /\ UNCHANGED extVars

FileInit ==
    /\ fileLen = 0
    /\ currentlyAllocated = 0
    /\ arenas = << >>
    /\ capacity = 0
    /\ mutex = 0
    /\ destroyed = FALSE
    /\ mappings = {}
    /\ pc = [ t \in Threads |-> "idle" ]
    /\ req = [ t \in Threads |-> [ bytes |-> 0, alignment |-> 1 ] ]
    /\ tmp = [ t \in Threads |-> [ data |-> 0, extra |-> 0, offset |-> 0 ] ]
    /\ result = [ t \in Threads |-> NoResult ]
    /\ returned = << >>
    /\ calls = 0
    /\ commits = 0
    /\ failures = 0
    /\ sumBytes = 0
    /\ sumPad = 0
    /\ sumWaste = 0

FileNext ==
    \/ \E t \in Threads : \E r \in Requests : AllocateWritable(t, r[1], r[2])
    \/ \E t \in Threads : ArenaAllocate(t)
    \/ \E t \in Threads : ArenaBump(t)
    \/ \E t \in Threads : ExpandLastArena(t)
    \/ \E t \in Threads : CreateNewArena(t)
    \/ \E t \in Threads : AllocateReturn(t)
    \/ \E t \in Threads : Commit(t)
    \/ \E i \in 1 .. Len(returned) : FreezeReturned(i)
    \/ Destroy

---------------------------------------------------------------------------
(***************************************************************************)
(* FrozenMemoryRegion, MutableMemoryRegion, MemorySerializer               *)
(***************************************************************************)
\* the bytes a client writes into its r-th region: every byte written is
\* different from every other
Stamp(r, n) == [ i \in 1 .. n |-> 10 * r + i ]

\* a failed ExcAssert
Thrown == [ ok |-> FALSE, region |-> NullRegion ]

Value(r) == [ ok |-> TRUE, region |-> r ]

\* a range that drops the handle of the region it slices
range_NoHandle(region, start, end) ==
    IF end >= start /\ end <= region.length
      THEN Value(FrozenMemoryRegion(0, region.data + start, end - start))
      ELSE Thrown

\* a range that does not test its end against the length
range_NoUpperCheck(region, start, end) ==
    IF end >= start
      THEN Value(FrozenMemoryRegion(region.handle, region.data + start,
                                    end - start))
      ELSE Thrown

\* a range whose length is its end
range_LengthIsEnd(region, start, end) ==
    IF end >= start /\ end <= region.length
      THEN Value(FrozenMemoryRegion(region.handle, region.data + start, end))
      ELSE Thrown

\* FrozenMemoryRegion::range
range(region, start, end) ==
    IF end >= start /\ end <= region.length
      THEN Value(FrozenMemoryRegion(region.handle, region.data + start,
                                    end - start))
      ELSE Thrown

\* the heap starts at a pointer-aligned address
HeapBase == 8 * PointerSize

RoundUp(n, alignment) == ((n + alignment - 1) \div alignment) * alignment

\* MemorySerializer::allocateWritable, the alignment it asks for
memAlignment(alignment) ==
    IF alignment < PointerSize THEN PointerSize ELSE alignment

\* posix_memalign(&mem, alignment, bytesRequired): the block it returns
posix_memalign(top, alignment, bytesRequired) ==
    RoundUp(top, alignment)

\* posix_memalign: the results it can return, 0 or ENOMEM
ENOMEM == 12
memalignResults == { 0, ENOMEM }

\* a freeze that loses the length of the region
MemoryFreeze_NoLength(region) ==
    FrozenMemoryRegion(region.handle, region.data, 0)

\* MemorySerializer::freeze
MemoryFreeze(region) ==
    FrozenMemoryRegion(region.handle, region.data, region.length)

\* the bytes of memory at [data, data + length)
ReadMem(data, length) == [ i \in 1 .. length |-> mem[data + i - 1] ]

---------------------------------------------------------------------------
(***************************************************************************)
(* Path and PathElement (sql/path.cc): rendering and parsing               *)
(***************************************************************************)
ElemChars == { "a", ".", "\"" }

\* the PathElements of the model: a bare one, the separator, a quote
Elements == { << c >> : c \in ElemChars }

\* isSimpleChar of PathElement's rendering: c >= ' ' && c != '"' && c != '.'
\* (every character of ElemChars is >= ' ')
isSimpleChar(c) == c # "\"" /\ c # "."

RECURSIVE DoubleQuotes(_)
DoubleQuotes(e) ==
    IF e = << >> THEN << >>
    ELSE (IF Head(e) = "\"" THEN << "\"", "\"" >> ELSE << Head(e) >>)
            \o DoubleQuotes(Tail(e))

\* a PathElement rendered: bare when all its characters are simple, else
\* quoted with its quotes doubled
RenderElement(e) ==
    IF \A i \in 1 .. Len(e) : isSimpleChar(e[i])
      THEN e
      ELSE << "\"" >> \o DoubleQuotes(e) \o << "\"" >>

\* Path::toUtf8String: the rendered elements, joined by the separator the
\* quoting protects
RECURSIVE RenderPath(_)
RenderPath(path) ==
    IF path = << >> THEN << >>
    ELSE IF Len(path) = 1 THEN RenderElement(path[1])
    ELSE RenderElement(Head(path)) \o << "." >> \o RenderPath(Tail(path))

\* a quoted element scanned up to its closing quote: "" stands for "
RECURSIVE ScanQuoted(_, _)
ScanQuoted(s, acc) ==
    IF s = << >> THEN [ elem |-> acc, rest |-> << >> ]
    ELSE IF Head(s) = "\""
      THEN IF Len(s) >= 2 /\ s[2] = "\""
             THEN ScanQuoted(Tail(Tail(s)), Append(acc, "\""))
             ELSE [ elem |-> acc, rest |-> Tail(s) ]
      ELSE ScanQuoted(Tail(s), Append(acc, Head(s)))

\* a bare element scanned up to the next separator
RECURSIVE ScanBare(_, _)
ScanBare(s, acc) ==
    IF s = << >> \/ Head(s) = "." THEN [ elem |-> acc, rest |-> s ]
    ELSE ScanBare(Tail(s), Append(acc, Head(s)))

\* Path::parse
RECURSIVE ParsePath(_)
ParsePath(s) ==
    IF s = << >> THEN << >>
    ELSE LET r == IF Head(s) = "\"" THEN ScanQuoted(Tail(s), << >>)
                  ELSE ScanBare(s, << >>)
         IN  << r.elem >>
               \o (IF r.rest = << >> THEN << >> ELSE ParsePath(Tail(r.rest)))

---------------------------------------------------------------------------
(***************************************************************************)
(* ZipStructuredSerializer: BaseItl, RelativeItl, EntrySerializer          *)
(***************************************************************************)
\* the alignments the clients of a leaf serializer ask for
EntryAlignments == { 1 }

\* Itl::path(): BaseItl (0) has the empty path, RelativeItl its parent's
\* path + relativePath
RECURSIVE itlPath(_)
itlPath(s) ==
    IF s = 0 THEN << >>
    ELSE Append(itlPath(structs[s].parent), structs[s].relativePath)

\* BaseItl::writeEntry with memory m: the entry the archive receives
writeEntryFrom(m, name, region, by) ==
    [ pathname |-> RenderPath(name),
      size |-> region.length,
      data |-> [ i \in 1 .. region.length |-> m[region.data + i - 1] ],
      by |-> by ]

\* BaseItl::writeEntry
writeEntry(name, region, by) == writeEntryFrom(mem, name, region, by)

RegionsOf(e) == { r \in 1 .. Len(regions) : regions[r].owner = e }

ZipAlive == ~closed /\ ~crashed

\* the leaf serializers not yet destroyed: held by a client ("live") or by
\* a stream handler as its baggage ("stream")
LiveEntries ==
    { e \in 1 .. Len(entries) : entries[e].status \in { "live", "stream" } }

\* ZipStructuredSerializer::newStructure
NewStructure(parent, name) ==
    /\ ZipAlive
    /\ Len(structs) < MaxStructs
    /\ parent \in 0 .. Len(structs)
    /\ structs' = Append(structs, [ parent |-> parent, relativePath |-> name ])
    /\ UNCHANGED << entries, regions, mem, heapTop, archive, closed, crashed,
                    reader >>
    /\ UNCHANGED moreVars
    /\ UNCHANGED fileVars
    /\ UNCHANGED extVars

\* ZipStructuredSerializer::newEntry
NewEntry(s, name) ==
    /\ ZipAlive
    /\ Len(entries) < MaxEntries
    /\ Cardinality(LiveEntries) < MaxLive
    /\ s \in 0 .. Len(structs)
    /\ entries' = Append(entries,
                         [ itl |-> s, entryName |-> name,
                           frozen |-> NullRegion, status |-> "live",
                           accum |-> << >> ])
    /\ UNCHANGED << structs, regions, mem, heapTop, archive, closed, crashed,
                    reader >>
    /\ UNCHANGED moreVars
    /\ UNCHANGED fileVars
    /\ UNCHANGED extVars

\* MemorySerializer::allocateWritable, on a leaf serializer
EntryAllocateWritable(e, bytesRequired, alignment) ==
    /\ ~crashed
    /\ entries[e].status = "live"
    /\ Cardinality(RegionsOf(e)) < MaxRegions
    /\ \A r \in RegionsOf(e) : regions[r].state = "frozen"
    /\ LET a == memAlignment(alignment)
           m == posix_memalign(heapTop, a, bytesRequired)
       IN  /\ regions' = Append(regions,
                                [ handle |-> m, data |-> m,
                                  length |-> bytesRequired, owner |-> e,
                                  alignment |-> alignment,
                                  state |-> "fresh", written |-> << >>,
                                  frozen |-> NullRegion ])
           /\ mem' = [ x \in (DOMAIN mem) \cup (m .. m + bytesRequired - 1)
                         |-> IF x \in DOMAIN mem THEN mem[x] ELSE 0 ]
           /\ heapTop' = m + Max(bytesRequired, 1)
    /\ UNCHANGED << structs, entries, archive, closed, crashed, reader >>
    /\ UNCHANGED moreVars
    /\ UNCHANGED fileVars
    /\ UNCHANGED extVars

\* the client fills the region: std::memcpy(mem.data(), ..., mem.length())
WriteRegion(r, b) ==
    /\ ~crashed
    /\ regions[r].state = "fresh"
    /\ Len(b) = regions[r].length
    /\ mem' = [ x \in DOMAIN mem |->
                  IF x >= regions[r].data /\ x < regions[r].data + Len(b)
                    THEN b[x - regions[r].data + 1] ELSE mem[x] ]
    /\ regions' = [ regions EXCEPT ![r].state = "written", ![r].written = b ]
    /\ UNCHANGED << structs, entries, heapTop, archive, closed, crashed,
                    reader >>
    /\ UNCHANGED moreVars
    /\ UNCHANGED fileVars
    /\ UNCHANGED extVars

\* MutableMemoryRegion::freeze, that is EntrySerializer::freeze
EntryFreeze(r) ==
    /\ ~crashed
    /\ regions[r].state = "written"
    /\ LET e == regions[r].owner
           f == MemoryFreeze(regions[r])
       IN  /\ regions' = [ regions EXCEPT ![r].state = "frozen",
                                          ![r].frozen = f ]
           /\ entries' = [ entries EXCEPT
                             ![e].frozen = f,
                             ![e].accum = @ \o ReadMem(f.data, f.length) ]
    /\ UNCHANGED << structs, mem, heapTop, archive, closed, crashed, reader >>
    /\ UNCHANGED moreVars
    /\ UNCHANGED fileVars
    /\ UNCHANGED extVars

\* EntrySerializer::~EntrySerializer
FinalizeEntry(e) ==
    /\ ~crashed
    /\ entries[e].status = "live"
    /\ \A r \in RegionsOf(e) : regions[r].state = "frozen"
    /\ IF closed
         THEN /\ crashed' = TRUE
              /\ UNCHANGED << entries, archive >>
         ELSE /\ archive' = Append(archive,
                    writeEntry(Append(itlPath(entries[e].itl),
                                      entries[e].entryName),
                               entries[e].frozen, e))
              /\ entries' = [ entries EXCEPT ![e].status = "done" ]
              /\ UNCHANGED crashed
    /\ UNCHANGED << structs, regions, mem, heapTop, closed, reader >>
    /\ UNCHANGED moreVars
    /\ UNCHANGED fileVars
    /\ UNCHANGED extVars

\* BaseItl::~BaseItl: archive_write_close writes the central directory
CloseRoot ==
    /\ ZipAlive
    /\ closed' = TRUE
    /\ UNCHANGED << structs, entries, regions, mem, heapTop, archive, crashed,
                    reader >>
    /\ UNCHANGED moreVars
    /\ UNCHANGED fileVars
    /\ UNCHANGED extVars

\* the bytes of memory m at [data, data + length)
ReadFrom(m, data, length) == [ i \in 1 .. length |-> m[data + i - 1] ]

\* std::memcpy(region.data(), bytes, length) on memory m, which grows to hold
\* the block just allocated
memcpy(m, data, bytes) ==
    [ x \in (DOMAIN m) \cup (data .. data + Len(bytes) - 1) |->
        IF x >= data /\ x < data + Len(bytes) THEN bytes[x - data + 1]
        ELSE m[x] ]

\* allocateWritable(n, 1), memcpy, freeze on leaf serializer e: the region it
\* leaves behind, frozen
copyIn(e, bytes) ==
    LET m == posix_memalign(heapTop, memAlignment(1), Len(bytes))
        mutable == [ handle |-> m, data |-> m, length |-> Len(bytes) ]
    IN  [ handle |-> m, data |-> m, length |-> Len(bytes), owner |-> e,
          alignment |-> 1, state |-> "frozen", written |-> bytes,
          frozen |-> MemoryFreeze(mutable) ]

\* the values handed to newObject, and the names they are handed with
ObjectValues == { 1, 2 }

\* newEntry("md")
MdName == << "m", "d" >>

ObjectNames == Elements \cup { MdName }

\* desc.printJson(val, context): the bytes the injected encoder prints
printJson(val) == << 100 + val >>

\* StructuredSerializer::newObject: print, newEntry("md"), allocateWritable,
\* memcpy, freeze; the entry is destroyed on return and writes itself
NewObject(s, name, val) ==
    /\ ZipAlive
    /\ Len(entries) < MaxEntries
    /\ s \in 0 .. Len(structs)
    /\ LET printed == printJson(val)
           e == Len(entries) + 1
           r == copyIn(e, printed)
           mem1 == memcpy(mem, r.data, printed)
       IN  /\ mem' = mem1
           /\ heapTop' = r.data + Max(r.length, 1)
           /\ regions' = Append(regions, r)
           /\ entries' = Append(entries,
                                [ itl |-> s, entryName |-> MdName,
                                  frozen |-> r.frozen, status |-> "done",
                                  accum |-> ReadFrom(mem1, r.frozen.data,
                                                     r.frozen.length) ])
           /\ archive' = Append(archive,
                  writeEntryFrom(mem1, Append(itlPath(s), MdName),
                                 r.frozen, e))
           /\ objects' = Append(objects,
                                [ itl |-> s, name |-> name,
                                  printed |-> printed, entry |-> e ])
    /\ UNCHANGED << structs, closed, crashed, reader >>
    /\ UNCHANGED moreVars
    /\ UNCHANGED fileVars
    /\ UNCHANGED << committed, streams, writers, wire, sliced, rdbuf >>

\* ZipStructuredSerializer::commit on the root: BaseItl::commit
CommitRoot ==
    /\ ZipAlive
    /\ committed' = TRUE
    /\ UNCHANGED moreVars
    /\ UNCHANGED zipVars
    /\ UNCHANGED fileVars
    /\ UNCHANGED << objects, streams, writers, wire, sliced, rdbuf >>

\* the bytes a client appends to a stream: each one different
StreamByte(h, n) == 50 + 10 * h + n

\* ZipStructuredSerializer::newStream: newEntry, and a handler that owns it
NewStream(s, name) ==
    /\ ZipAlive
    /\ Len(entries) < MaxEntries
    /\ Cardinality(LiveEntries) < MaxLive
    /\ s \in 0 .. Len(structs)
    /\ entries' = Append(entries,
                         [ itl |-> s, entryName |-> name,
                           frozen |-> NullRegion, status |-> "stream",
                           accum |-> << >> ])
    /\ streams' = Append(streams,
                         [ owner |-> Len(entries) + 1, buf |-> << >>,
                           state |-> "open" ])
    /\ UNCHANGED << structs, regions, mem, heapTop, archive, closed, crashed,
                    reader >>
    /\ UNCHANGED moreVars
    /\ UNCHANGED fileVars
    /\ UNCHANGED << objects, committed, writers, wire, sliced, rdbuf >>

\* operator<< on the filter_ostream: the byte goes to handler->stream
StreamWrite(h) ==
    /\ ~crashed
    /\ streams[h].state = "open"
    /\ Len(streams[h].buf) < MaxPayloadLen
    /\ streams' = [ streams EXCEPT
                      ![h].buf = Append(@, StreamByte(h, Len(@) + 1)) ]
    /\ UNCHANGED moreVars
    /\ UNCHANGED zipVars
    /\ UNCHANGED fileVars
    /\ UNCHANGED << objects, committed, writers, wire, sliced, rdbuf >>

\* a handler that forgets the last byte of its stream
streamStr_Short(h) == SubSeq(streams[h].buf, 1, Len(streams[h].buf) - 1)

\* stream.str()
streamStr(h) == streams[h].buf

\* the filter_ostream is closed: ~SerializerStreamHandler allocates, copies
\* and freezes; then its baggage, the leaf serializer, is destroyed and
\* writes its entry (on a closed archive the write throws from a destructor)
CloseStream(h) ==
    /\ ~crashed
    /\ streams[h].state = "open"
    /\ \E res \in memalignResults :
          IF res # 0
            THEN \* allocateWritable throws out of the destructor, which is
                 \* noexcept: std::terminate
                 /\ streams' = [ streams EXCEPT ![h].state = "failed" ]
                 /\ crashed' = TRUE
                 /\ UNCHANGED << mem, heapTop, regions, entries, archive >>
            ELSE
              LET e == streams[h].owner
                  r == copyIn(e, streamStr(h))
                  mem1 == memcpy(mem, r.data, streamStr(h))
                  bytes == ReadFrom(mem1, r.frozen.data, r.frozen.length)
              IN  /\ mem' = mem1
                  /\ heapTop' = r.data + Max(r.length, 1)
                  /\ regions' = Append(regions, r)
                  /\ streams' = [ streams EXCEPT ![h].state = "closed" ]
                  /\ IF closed
                       THEN /\ crashed' = TRUE
                            /\ entries' = [ entries EXCEPT
                                              ![e].frozen = r.frozen,
                                              ![e].accum = bytes ]
                            /\ UNCHANGED archive
                       ELSE /\ entries' = [ entries EXCEPT
                                              ![e].frozen = r.frozen,
                                              ![e].accum = bytes,
                                              ![e].status = "done" ]
                            /\ archive' = Append(archive,
                                   writeEntryFrom(mem1,
                                       Append(itlPath(entries[e].itl),
                                              entries[e].entryName),
                                       r.frozen, e))
                            /\ UNCHANGED crashed
    /\ UNCHANGED << structs, closed, reader >>
    /\ UNCHANGED moreVars
    /\ UNCHANGED fileVars
    /\ UNCHANGED << objects, committed, writers, wire, sliced, rdbuf >>

\* a thread gets a leaf serializer of its own from newEntry
ThreadNewEntry(t, s, name) ==
    /\ ZipAlive
    /\ writers[t].pc = "idle"
    /\ Len(entries) < MaxEntries
    /\ s \in 0 .. Len(structs)
    /\ entries' = Append(entries,
                         [ itl |-> s, entryName |-> name,
                           frozen |-> NullRegion, status |-> "live",
                           accum |-> << >> ])
    /\ writers' = [ writers EXCEPT
                      ![t] = [ pc |-> "own", entry |-> Len(entries) + 1 ] ]
    /\ UNCHANGED << structs, regions, mem, heapTop, archive, closed, crashed,
                    reader >>
    /\ UNCHANGED moreVars
    /\ UNCHANGED fileVars
    /\ UNCHANGED << objects, committed, streams, wire, sliced, rdbuf >>

\* the thread drops its leaf serializer: ~EntrySerializer enters
\* BaseItl::writeEntry and fills in the archive_entry; no lock is taken
DestroyEntry(t) ==
    /\ ~crashed
    /\ writers[t].pc = "own"
    /\ \A r \in RegionsOf(writers[t].entry) : regions[r].state = "frozen"
    /\ writers' = [ writers EXCEPT ![t].pc = "header" ]
    /\ entries' = [ entries EXCEPT ![writers[t].entry].status = "dying" ]
    /\ UNCHANGED << structs, regions, mem, heapTop, archive, closed, crashed,
                    reader >>
    /\ UNCHANGED moreVars
    /\ UNCHANGED fileVars
    /\ UNCHANGED << objects, committed, streams, wire, sliced, rdbuf >>

\* writeEntry: archive_op(archive_write_header, entry.entry.get())
ArchiveWriteHeader(t) ==
    /\ ~crashed
    /\ writers[t].pc = "header"
    /\ wire' = Append(wire, [ kind |-> "header", by |-> writers[t].entry ])
    /\ writers' = [ writers EXCEPT ![t].pc = "data" ]
    /\ UNCHANGED moreVars
    /\ UNCHANGED zipVars
    /\ UNCHANGED fileVars
    /\ UNCHANGED << objects, committed, streams, sliced, rdbuf >>

\* writeEntry: archive_write_data(a.get(), region.data(), region.length())
ArchiveWriteData(t) ==
    /\ ~crashed
    /\ writers[t].pc = "data"
    /\ wire' = Append(wire, [ kind |-> "data", by |-> writers[t].entry ])
    /\ writers' = [ writers EXCEPT ![t] = [ pc |-> "idle", entry |-> 0 ] ]
    /\ entries' = [ entries EXCEPT ![writers[t].entry].status = "done" ]
    /\ UNCHANGED << structs, regions, mem, heapTop, archive, closed, crashed,
                    reader >>
    /\ UNCHANGED moreVars
    /\ UNCHANGED fileVars
    /\ UNCHANGED << objects, committed, streams, sliced, rdbuf >>

---------------------------------------------------------------------------
(***************************************************************************)
(* The container file as libarchive lays it out and reads it back.         *)
(***************************************************************************)
\* where mapFile maps the container: a page-aligned address
ContainerBase == 1024 * page_size

\* the handle of the container's mapping
ContainerHandle == ContainerBase

CharCode(c) ==
    IF c = "a" THEN 1 ELSE IF c = "." THEN 2 ELSE IF c = "\"" THEN 3
    ELSE IF c = "m" THEN 4 ELSE 5

\* the cells of a local file header: HdrLen fixed bytes, then the name
HeaderCells(entry) ==
    [ i \in 1 .. HdrLen |-> -1 ]
        \o [ i \in 1 .. Len(entry.pathname) |->
               -(1 + CharCode(entry.pathname[i])) ]

\* the bytes of the container: for each entry its header and its stored
\* data, then the central directory
RECURSIVE LocalCells(_)
LocalCells(ar) ==
    IF ar = << >> THEN << >>
    ELSE HeaderCells(Head(ar)) \o Head(ar).data \o LocalCells(Tail(ar))

RECURSIVE CentralCells(_)
CentralCells(ar) ==
    IF ar = << >> THEN << -1 >>
    ELSE HeaderCells(Head(ar)) \o CentralCells(Tail(ar))

ContainerBytes(ar) == LocalCells(ar) \o CentralCells(ar)

\* archive_read_next_header + archive_read_data_block over the mapped
\* container: for each entry its pathname, the pointer to its first block of
\* data (inside the mapping for a stored entry, null for an empty one) and
\* the length of that block
RECURSIVE ReadHeaders(_, _)
ReadHeaders(ar, pos) ==
    IF ar = << >> THEN << >>
    ELSE LET h == Head(ar)
             start == pos + Len(HeaderCells(h))
         IN  << [ pathname |-> h.pathname,
                  currentBlock |-> IF h.size = 0 THEN 0 ELSE start,
                  length |-> h.size ] >>
               \o ReadHeaders(Tail(ar), start + h.size)

---------------------------------------------------------------------------
(***************************************************************************)
(* ZipStructuredReconstituter                                              *)
(***************************************************************************)
\* Itl::Entry(): no path, no children, no region
DefaultEntry == [ path |-> << >>, region |-> NullRegion ]

Prefixes(path) == { SubSeq(path, 1, n) : n \in 0 .. Len(path) }

\* current = &current->children[e] for each e of path: the nodes on the way
\* are created, and the last one takes the path and the region
InsertEntry(index, path, region) ==
    [ n \in (DOMAIN index) \cup Prefixes(path) |->
        IF n = path THEN [ path |-> path, region |-> region ]
        ELSE IF n \in DOMAIN index THEN index[n]
        ELSE DefaultEntry ]

\* an offset that takes every block outside the container for an empty one
entryOffset_NoCheck(container, d) ==
    LET offset == d.currentBlock - container.data
    IN  IF offset >= 0 /\ offset <= container.length THEN offset ELSE 0

\* the offset of an entry's data in the container, or -1 when the block is
\* outside the container and not empty (ExcAssert(false))
entryOffset(container, d) ==
    LET offset == d.currentBlock - container.data
    IN  IF offset >= 0 /\ offset <= container.length THEN offset
        ELSE IF d.length = 0 THEN 0
        ELSE -1

\* Itl::Itl(FrozenMemoryRegion): the loop over the headers
RECURSIVE IndexEntries(_, _, _)
IndexEntries(container, dir, index) ==
    IF dir = << >> THEN [ ok |-> TRUE, index |-> index ]
    ELSE LET d == Head(dir)
             offset == entryOffset(container, d)
             slice == IF offset < 0 THEN Thrown
                      ELSE range(container, offset, offset + d.length)
         IN  IF ~slice.ok THEN [ ok |-> FALSE, index |-> index ]
             ELSE IndexEntries(container, Tail(dir),
                               InsertEntry(index, ParsePath(d.pathname),
                                           slice.region))

\* ZipStructuredReconstituter(Url) / (FrozenMemoryRegion)
OpenReader ==
    /\ closed /\ ~crashed
    /\ reader.state = "none"
    /\ LET container == FrozenMemoryRegion(ContainerHandle, ContainerBase,
                                           Len(ContainerBytes(archive)))
           built == IndexEntries(container,
                                 ReadHeaders(archive, ContainerBase),
                                 (<< >> :> DefaultEntry))
       IN  reader' = [ state |-> IF built.ok THEN "open" ELSE "failed",
                       region |-> container,
                       index |-> built.index,
                       dir |-> ReadHeaders(archive, ContainerBase) ]
    /\ UNCHANGED << structs, entries, regions, mem, heapTop, archive, closed,
                    crashed >>
    /\ UNCHANGED moreVars
    /\ UNCHANGED fileVars
    /\ UNCHANGED extVars

NotFound == [ ok |-> FALSE, region |-> NullRegion, root |-> << >> ]

\* ZipStructuredReconstituter::getRegion, on the reconstituter rooted at root
getRegion(root, name) ==
    LET child == Append(root, name)
    IN  IF child \notin DOMAIN reader.index THEN NotFound
        ELSE [ ok |-> TRUE, region |-> reader.index[child].region,
               root |-> root ]

\* ZipStructuredReconstituter::getStructure
getStructure(root, name) ==
    LET child == Append(root, name)
    IN  IF child \notin DOMAIN reader.index THEN NotFound
        ELSE [ ok |-> TRUE, region |-> NullRegion, root |-> child ]

\* StructuredReconstituter::getRegionRecursive
RECURSIVE getRegionRecursive(_, _)
getRegionRecursive(root, name) ==
    IF Len(name) = 1 THEN getRegion(root, Head(name))
    ELSE LET s == getStructure(root, Head(name))
         IN  IF ~s.ok THEN NotFound
             ELSE getRegionRecursive(s.root, Tail(name))

\* root->children of the reconstituter rooted at root
children(root) ==
    { p \in DOMAIN reader.index :
        Len(p) = Len(root) + 1 /\ SubSeq(p, 1, Len(root)) = root }

\* a test of the region's length in place of its pointer
hasBlock_ByLength(region) == region.length > 0

\* getDirectory: if (ch.second.region.data())
hasBlock(region) == region.data # 0

\* ZipStructuredReconstituter::getDirectory: one Entry for each child, with
\* getBlock and getStructure set or not
getDirectory(root) ==
    { [ name |-> p[Len(p)],
        getBlock |-> hasBlock(reader.index[p].region),
        getStructure |-> children(p) # { } ] : p \in children(root) }

\* get_structure for every element but the last, then get_region
StepByStep(path) ==
    LET parent == SubSeq(path, 1, Len(path) - 1)
    IN  IF \A n \in 1 .. Len(path) - 1 :
              getStructure(SubSeq(path, 1, n - 1), path[n]).ok
          THEN getRegion(parent, path[Len(path)])
          ELSE NotFound

\* the bytes of a region of the container
ContainerSlice(region) ==
    SubSeq(ContainerBytes(archive),
           region.data - ContainerBase + 1,
           region.data - ContainerBase + region.length)

ZipInit ==
    /\ structs = << >>
    /\ entries = << >>
    /\ regions = << >>
    /\ mem = << >>
    /\ heapTop = HeapBase
    /\ archive = << >>
    /\ closed = FALSE
    /\ crashed = FALSE
    /\ reader = [ state |-> "none", region |-> NullRegion,
                  index |-> (<< >> :> DefaultEntry), dir |-> << >> ]

ZipNext ==
    \/ \E p \in 0 .. MaxStructs : \E n \in Elements : NewStructure(p, n)
    \/ \E s \in 0 .. MaxStructs : \E n \in Elements : NewEntry(s, n)
    \/ \E e \in 1 .. Len(entries) : \E n \in 0 .. MaxPayloadLen :
          \E a \in EntryAlignments : EntryAllocateWritable(e, n, a)
    \/ \E r \in 1 .. Len(regions) :
          WriteRegion(r, Stamp(r, regions[r].length))
    \/ \E r \in 1 .. Len(regions) : EntryFreeze(r)
    \/ \E e \in 1 .. Len(entries) : FinalizeEntry(e)
    \/ CloseRoot
    \/ OpenReader
    \/ \E p \in 0 .. MaxStructs : \E n \in ObjectNames :
          \E v \in ObjectValues : NewObject(p, n, v)
    \/ CommitRoot
    \/ \E p \in 0 .. MaxStructs : \E n \in Elements : NewStream(p, n)
    \/ \E h \in 1 .. Len(streams) : StreamWrite(h)
    \/ \E h \in 1 .. Len(streams) : CloseStream(h)

---------------------------------------------------------------------------
(***************************************************************************)
(* FrozenMemoryRegion::range and ReconstituteStreamHandler                 *)
(***************************************************************************)
NoSlice == [ op |-> "none" ]

NoStream == [ state |-> "none", start |-> 0, end |-> 0, gptr |-> 0 ]

\* the regions sliced: [RegionBase, RegionBase + n)
RegionBase == 4 * HeapBase

SliceRegions ==
    { FrozenMemoryRegion(RegionBase, RegionBase, n) : n \in 0 .. MaxSliceLen }

\* the bounds and offsets a caller passes
SliceArgs == (0 - MaxSeek) .. (MaxSliceLen + MaxSeek)

\* conversion of the caller's integer to size_t
ToSizeT(x) == x % (2 ^ SizeBits)

\* region.range(start, end)
Slice(region, start, end) ==
    /\ sliced = NoSlice /\ rdbuf = NoStream
    /\ sliced' = [ op |-> "range", region |-> region,
                   start |-> start, end |-> end,
                   out |-> range(region, ToSizeT(start), ToSizeT(end)) ]
    /\ UNCHANGED << objects, committed, streams, writers, wire, rdbuf >>
    /\ UNCHANGED moreVars
    /\ UNCHANGED fileVars
    /\ UNCHANGED zipVars

\* region.range(a, b).range(c, d) and region.range(a + c, a + d)
SliceTwice(region, a, b, c, d) ==
    /\ sliced = NoSlice /\ rdbuf = NoStream
    /\ LET inner == range(region, ToSizeT(a), ToSizeT(b))
       IN  sliced' = [ op |-> "compose", region |-> region,
                       a |-> a, b |-> b, c |-> c, d |-> d,
                       twice |-> IF inner.ok
                                   THEN range(inner.region, ToSizeT(c),
                                              ToSizeT(d))
                                   ELSE Thrown,
                       once |-> range(region, ToSizeT(a + c),
                                      ToSizeT(a + d)) ]
    /\ UNCHANGED << objects, committed, streams, writers, wire, rdbuf >>
    /\ UNCHANGED moreVars
    /\ UNCHANGED fileVars
    /\ UNCHANGED zipVars

\* ReconstituteStreamHandler(FrozenMemoryRegion): setg(start, start, end)
OpenStream ==
    /\ sliced # NoSlice /\ sliced.op = "range" /\ sliced.out.ok
    /\ rdbuf = NoStream
    /\ rdbuf' = [ state |-> "open",
                  start |-> sliced.out.region.data,
                  end |-> sliced.out.region.data + sliced.out.region.length,
                  gptr |-> sliced.out.region.data ]
    /\ UNCHANGED << objects, committed, streams, writers, wire, sliced >>
    /\ UNCHANGED moreVars
    /\ UNCHANGED fileVars
    /\ UNCHANGED zipVars

\* seekoff: the get pointer after gbump(off), setg(start, end + off, end) or
\* setg(start, start + off, end)
seekoff(buf, off, dir) ==
    IF dir = "cur" THEN buf.gptr + off
    ELSE IF dir = "end" THEN buf.end + off
    ELSE buf.start + off

\* ReconstituteStreamHandler::seekoff
Seekoff(off, dir) ==
    /\ rdbuf.state = "open"
    /\ LET p == seekoff(rdbuf, off, dir)
       IN  /\ p >= rdbuf.start - MaxSeek
           /\ p <= rdbuf.end + MaxSeek
           /\ rdbuf' = [ rdbuf EXCEPT !.gptr = p ]
    /\ UNCHANGED << objects, committed, streams, writers, wire, sliced >>
    /\ UNCHANGED moreVars
    /\ UNCHANGED fileVars
    /\ UNCHANGED zipVars

\* ReconstituteStreamHandler::seekpos: seekoff(pos, beg)
Seekpos(pos) ==
    /\ rdbuf.state = "open"
    /\ rdbuf' = [ rdbuf EXCEPT !.gptr = seekoff(rdbuf, pos, "beg") ]
    /\ UNCHANGED << objects, committed, streams, writers, wire, sliced >>
    /\ UNCHANGED moreVars
    /\ UNCHANGED fileVars
    /\ UNCHANGED zipVars

\* the regions and the stream are dropped
Release ==
    /\ sliced # NoSlice
    /\ sliced' = NoSlice
    /\ rdbuf' = NoStream
    /\ UNCHANGED << objects, committed, streams, writers, wire >>
    /\ UNCHANGED moreVars
    /\ UNCHANGED fileVars
    /\ UNCHANGED zipVars

RegionNext ==
    \/ \E r \in SliceRegions : \E start, end \in SliceArgs :
          Slice(r, start, end)
    \/ \E r \in SliceRegions : \E a, b, c, d \in 0 .. MaxSliceLen + 1 :
          SliceTwice(r, a, b, c, d)
    \/ OpenStream
    \/ \E off \in SliceArgs \cup { 0 - x : x \in SliceArgs } :
          \E dir \in { "cur", "beg", "end" } : Seekoff(off, dir)
    \/ \E pos \in SliceArgs : Seekpos(pos)
    \/ Release

---------------------------------------------------------------------------
(***************************************************************************)
(* Handles: std::shared_ptr<void> over heap blocks and file mappings       *)
(***************************************************************************)
\* the blocks made and the region objects made over them
MaxBlocks == 2
MaxCopies == 4

\* the width of size_t in mapFile's arithmetic
MapBits == 8

\* st_size of the file mapped
MapFileSize == 35

\* the (startOffset, length) a caller passes to mapFile; -1 is "the file"
MapStarts == { 0, 5, page_size }
MapLengths == { 0 - 1, 0, page_size - 2 }

\* what mmap returns on failure
MAP_FAILED == 0 - 1

\* a copy constructor that does not count the new owner
shared_ptr_copy_NoCount(b) == b

\* std::shared_ptr's copy constructor: one more owner of the block
shared_ptr_copy(b) == [ b EXCEPT !.use_count = @ + 1 ]

\* ~shared_ptr: one owner fewer, and the deleter (free, or munmap and close)
\* runs when none is left
shared_ptr_release(b) ==
    [ b EXCEPT !.use_count = @ - 1,
               !.live = IF b.use_count - 1 = 0 THEN FALSE ELSE @ ]

\* where the heap ends
HeapEnd ==
    LET ends == { blocks[b].addr + Max(blocks[b].length, 1) :
                    b \in { x \in 1 .. Len(blocks) :
                              blocks[x].kind = "heap" } }
    IN  IF ends = { } THEN HeapBase
        ELSE CHOOSE e \in ends : \A f \in ends : f <= e

\* the file mappings the process holds
LiveMaps ==
    { [ addr |-> blocks[b].addr, length |-> blocks[b].length ] :
        b \in { x \in 1 .. Len(blocks) :
                  blocks[x].kind = "map" /\ blocks[x].live } }

\* the region object c holds
RegionOf(c) ==
    FrozenMemoryRegion(copies[c].handle, copies[c].data, copies[c].length)

\* MemorySerializer::allocateWritable: the block is owned by the handle,
\* which is moved into the region returned
MemAllocateWritable(bytesRequired, alignment) ==
    /\ Len(blocks) < MaxBlocks
    /\ Len(copies) < MaxCopies
    /\ LET m == posix_memalign(HeapEnd, memAlignment(alignment),
                               bytesRequired)
       IN  /\ blocks' = Append(blocks,
                               [ kind |-> "heap", addr |-> m,
                                 length |-> bytesRequired, offset |-> 0,
                                 startOffset |-> 0, requested |-> bytesRequired,
                                 use_count |-> 1, live |-> TRUE ])
           /\ copies' = Append(copies,
                               [ block |-> Len(blocks) + 1,
                                 kind |-> "mutable", handle |-> m,
                                 data |-> m, length |-> bytesRequired,
                                 by |-> "allocateWritable", live |-> TRUE ])
    /\ UNCHANGED << fileVars, zipVars, extVars, colVars >>

\* MutableMemoryRegion::freeze on a MemorySerializer: region.handle() is a
\* copy of the handle, given to the FrozenMemoryRegion
HandleFreeze(c) ==
    /\ Len(copies) < MaxCopies
    /\ copies[c].live
    /\ copies[c].kind = "mutable"
    /\ LET f == MemoryFreeze(RegionOf(c))
       IN  /\ copies' = Append(copies,
                               [ block |-> copies[c].block,
                                 kind |-> "frozen", handle |-> f.handle,
                                 data |-> f.data, length |-> f.length,
                                 by |-> "freeze", live |-> TRUE ])
           /\ blocks' = [ blocks EXCEPT
                            ![copies[c].block] = shared_ptr_copy(@) ]
    /\ UNCHANGED << fileVars, zipVars, extVars, colVars >>

\* FrozenMemoryRegion::range on a region that holds a handle: the slice gets
\* a copy of handle_
HandleRange(c, start, end) ==
    /\ Len(copies) < MaxCopies
    /\ copies[c].live
    /\ copies[c].kind = "frozen"
    /\ LET r == range(RegionOf(c), start, end)
       IN  /\ r.ok
           /\ copies' = Append(copies,
                               [ block |-> copies[c].block,
                                 kind |-> "frozen",
                                 handle |-> r.region.handle,
                                 data |-> r.region.data,
                                 length |-> r.region.length,
                                 by |-> "range", live |-> TRUE ])
           /\ blocks' = [ blocks EXCEPT
                            ![copies[c].block] = shared_ptr_copy(@) ]
    /\ UNCHANGED << fileVars, zipVars, extVars, colVars >>

\* a region object is destroyed, and with it its handle
Drop(c) ==
    /\ copies[c].live
    /\ copies' = [ copies EXCEPT ![c].live = FALSE ]
    /\ blocks' = [ blocks EXCEPT
                     ![copies[c].block] = shared_ptr_release(@) ]
    /\ UNCHANGED << fileVars, zipVars, extVars, colVars >>

\* x & ~(page_size - 1)
PageFloor(x) == (x \div page_size) * page_size

\* mapFile: mapOffset
mapOffsetOf(startOffset) == PageFloor(startOffset)

\* mapFile: mapLength, computed in size_t
mapLengthOf(length, mapOffset) ==
    PageFloor((length - mapOffset + page_size - 1) % (2 ^ MapBits))

\* mmap(nullptr, mapLength, PROT_READ, MAP_SHARED, fd, mapOffset): no mapping
\* of no bytes, and none larger than the address space of a process
mmapFile(mapLength) ==
    IF mapLength = 0 \/ mapLength >= 2 ^ (MapBits - 1)
      THEN { MAP_FAILED }
      ELSE mmapChoices(LiveMaps, mapLength)

\* mapFile(filename, startOffset, length)
MapFile(startOffset, length) ==
    /\ Len(blocks) < MaxBlocks
    /\ Len(copies) < MaxCopies
    /\ LET len == IF length = 0 - 1 THEN MapFileSize ELSE length
           mapOffset == mapOffsetOf(startOffset)
           mapLength == mapLengthOf(len, mapOffset)
       IN  \E addr \in mmapFile(mapLength) :
             IF addr = MAP_FAILED
               THEN \* the handle goes as the exception is thrown
                    /\ blocks' = Append(blocks,
                                   [ kind |-> "map", addr |-> MAP_FAILED,
                                     length |-> mapLength,
                                     offset |-> mapOffset,
                                     startOffset |-> startOffset,
                                     requested |-> len,
                                     use_count |-> 0, live |-> FALSE ])
                    /\ UNCHANGED copies
               ELSE /\ blocks' = Append(blocks,
                                   [ kind |-> "map", addr |-> addr,
                                     length |-> mapLength,
                                     offset |-> mapOffset,
                                     startOffset |-> startOffset,
                                     requested |-> len,
                                     use_count |-> 1, live |-> TRUE ])
                    /\ copies' = Append(copies,
                                   [ block |-> Len(blocks) + 1,
                                     kind |-> "frozen", handle |-> addr,
                                     data |-> addr
                                               + (startOffset % page_size),
                                     length |-> len, by |-> "mapFile",
                                     live |-> TRUE ])
    /\ UNCHANGED << fileVars, zipVars, extVars, colVars >>

HandleInit ==
    /\ blocks = << >>
    /\ copies = << >>

HandleNext ==
    \/ \E n \in 0 .. MaxPayloadLen : \E a \in EntryAlignments :
          MemAllocateWritable(n, a)
    \/ \E c \in 1 .. Len(copies) : HandleFreeze(c)
    \/ \E c \in 1 .. Len(copies) : \E start, end \in 0 .. MaxPayloadLen :
          HandleRange(c, start, end)
    \/ \E c \in 1 .. Len(copies) : Drop(c)
    \/ \E startOffset \in MapStarts : \E length \in MapLengths :
          MapFile(startOffset, length)

---------------------------------------------------------------------------
(***************************************************************************)
(* ZipStructuredReconstituter over a container made by another tool        *)
(***************************************************************************)
\* the pathnames of the entries of such a container
ForeignNames ==
    { RenderPath(<< e >>) : e \in Elements }
        \cup { RenderPath(<< e, f >>) : e \in Elements, f \in { << "a" >> } }

\* its entries: stored as they are, or deflated
ForeignEntries ==
    [ pathname : ForeignNames, size : 0 .. MaxPayloadLen,
      method : { "store", "deflate" } ]

\* the container: one or two entries, the bytes of each numbered
ForeignContainers ==
    { << e >> : e \in ForeignEntries }
        \cup { << e, f >> : e \in ForeignEntries, f \in ForeignEntries }

WithData(ar) ==
    [ i \in 1 .. Len(ar) |->
        [ pathname |-> ar[i].pathname, size |-> ar[i].size,
          method |-> ar[i].method, data |-> Stamp(i, ar[i].size) ] ]

\* x rounded up to a page
PageCeil(x) == pages(x) * page_size

\* where libarchive's buffer of inflated data may lie: in the heap below the
\* container's mapping, or right after its last page
InflateBuffers(length) == { HeapBase, ContainerBase + PageCeil(length) }

\* archive_read_next_header + archive_read_data_block: a stored entry's
\* block is in the container, a deflated one's in libarchive's buffer, an
\* empty one has none
RECURSIVE ReadBlocks(_, _, _)
ReadBlocks(ar, pos, buffer) ==
    IF ar = << >> THEN << >>
    ELSE LET h == Head(ar)
             start == pos + Len(HeaderCells(h))
         IN  << [ pathname |-> h.pathname,
                  currentBlock |-> IF h.size = 0 THEN 0
                                   ELSE IF h.method = "deflate" THEN buffer
                                   ELSE start,
                  length |-> h.size ] >>
               \o ReadBlocks(Tail(ar), start + h.size, buffer)

\* ZipStructuredReconstituter(FrozenMemoryRegion) on the container
OpenContainer(ar, buffer) ==
    /\ reader.state = "none"
    /\ LET container == FrozenMemoryRegion(ContainerHandle, ContainerBase,
                                           Len(ContainerBytes(WithData(ar))))
           dir == ReadBlocks(WithData(ar), ContainerBase, buffer)
           built == IndexEntries(container, dir, (<< >> :> DefaultEntry))
       IN  reader' = [ state |-> IF built.ok THEN "open" ELSE "failed",
                       region |-> container,
                       index |-> built.index,
                       dir |-> dir ]
    /\ UNCHANGED << structs, entries, regions, mem, heapTop, archive, closed,
                    crashed >>
    /\ UNCHANGED << fileVars, extVars, moreVars >>

\* the reconstituter is destroyed
CloseReader ==
    /\ reader.state # "none"
    /\ reader' = [ state |-> "none", region |-> NullRegion,
                   index |-> (<< >> :> DefaultEntry), dir |-> << >> ]
    /\ UNCHANGED << structs, entries, regions, mem, heapTop, archive, closed,
                    crashed >>
    /\ UNCHANGED << fileVars, extVars, moreVars >>

IndexNext ==
    \/ \E ar \in ForeignContainers :
          \E buffer \in InflateBuffers(Len(ContainerBytes(WithData(ar)))) :
              OpenContainer(ar, buffer)
    \/ CloseReader

---------------------------------------------------------------------------
(***************************************************************************)
(* TabularDatasetColumn                                                    *)
(***************************************************************************)
\* the add calls made on a column, the rows they name and the values
MaxAdds == 4
MaxRow == 2
NumValues == 3

\* the number of values CellValue::hash() tells apart
HashBuckets == 4

\* below this many values getIndex searches indexedVals one by one
LinearSearchLimit == 8

RowNumbers == 0 .. MaxRow

\* CellValue(): the empty value
NoValue == 0

\* the values that are not empty
CellValues == 1 .. NumValues

\* val.hash()
hash(val) == val % HashBuckets

\* the first i with indexedVals[i] = val, counted from 0, or -1
linearSearch(vals, val) ==
    LET found == { i \in 1 .. Len(vals) : vals[i] = val }
    IN  IF found = { } THEN 0 - 1
        ELSE (CHOOSE i \in found : \A j \in found : i <= j) - 1

\* TabularDatasetColumn::getIndex on a column that is not frozen: the index
\* returned and what it leaves in indexedVals, lastValue and valueIndex
getIndex(val) ==
    IF sparseIndexes # << >> /\ val = lastValue
      THEN [ index |-> sparseIndexes[Len(sparseIndexes)][2],
             indexedVals |-> indexedVals, lastValue |-> lastValue,
             valueIndex |-> valueIndex ]
    ELSE IF Len(indexedVals) < LinearSearchLimit
              /\ linearSearch(indexedVals, val) >= 0
      THEN [ index |-> linearSearch(indexedVals, val),
             indexedVals |-> indexedVals, lastValue |-> val,
             valueIndex |-> valueIndex ]
    ELSE IF hash(val) \notin DOMAIN valueIndex
      THEN [ index |-> Len(indexedVals),
             indexedVals |-> Append(indexedVals, val),
             lastValue |-> val,
             valueIndex |-> (hash(val) :> Len(indexedVals)) @@ valueIndex ]
    ELSE [ index |-> valueIndex[hash(val)],
           indexedVals |-> indexedVals, lastValue |-> val,
           valueIndex |-> valueIndex ]

\* TabularDatasetColumn::add(rowNumber, val)
Add(rowNumber, val) ==
    /\ Len(added) < MaxAdds
    /\ LET first == minRowNumber = 0 - 1
           call(outcome) == [ row |-> rowNumber, val |-> val,
                              outcome |-> outcome ]
       IN  IF ~first /\ rowNumber < maxRowNumber
             THEN \* ExcAssertGreaterEqual(rowNumber, maxRowNumber) throws
                  /\ added' = Append(added, call("thrown"))
                  /\ UNCHANGED << minRowNumber, maxRowNumber, sparseIndexes,
                                  indexedVals, lastValue, valueIndex >>
           ELSE IF val = NoValue
             THEN /\ minRowNumber' = IF first THEN rowNumber
                                     ELSE minRowNumber
                  /\ maxRowNumber' = rowNumber
                  /\ added' = Append(added, call("empty"))
                  /\ UNCHANGED << sparseIndexes, indexedVals, lastValue,
                                  valueIndex >>
           ELSE IF isFrozen
             THEN \* ExcAssert(!isFrozen) throws in getIndex
                  /\ minRowNumber' = IF first THEN rowNumber
                                     ELSE minRowNumber
                  /\ added' = Append(added, call("thrown"))
                  /\ UNCHANGED << maxRowNumber, sparseIndexes, indexedVals,
                                  lastValue, valueIndex >>
           ELSE LET g == getIndex(val)
                    min == IF first THEN rowNumber ELSE minRowNumber
                IN  /\ minRowNumber' = min
                    /\ indexedVals' = g.indexedVals
                    /\ lastValue' = g.lastValue
                    /\ valueIndex' = g.valueIndex
                    /\ IF rowNumber = maxRowNumber
                         THEN \* the second value of the row is ignored
                              /\ added' = Append(added, call("ignored"))
                              /\ UNCHANGED << maxRowNumber, sparseIndexes >>
                         ELSE /\ maxRowNumber' = rowNumber
                              /\ sparseIndexes' =
                                   Append(sparseIndexes,
                                          << rowNumber - min, g.index >>)
                              /\ added' = Append(added, call("recorded"))
    /\ UNCHANGED isFrozen
    /\ UNCHANGED << fileVars, zipVars, extVars, handleVars >>

\* TabularDatasetColumn::freeze: ExcAssert(!isFrozen) throws on a frozen
\* column; else the frozen form is built from the column and isFrozen set
ColumnFreeze ==
    /\ IF isFrozen
         THEN /\ Len(added) < MaxAdds
              /\ added' = Append(added, [ row |-> 0 - 1, val |-> NoValue,
                                          outcome |-> "freeze thrown" ])
              /\ UNCHANGED isFrozen
         ELSE /\ isFrozen' = TRUE
              /\ UNCHANGED added
    /\ UNCHANGED << minRowNumber, maxRowNumber, sparseIndexes, indexedVals,
                    lastValue, valueIndex >>
    /\ UNCHANGED << fileVars, zipVars, extVars, handleVars >>

ColNext ==
    \/ \E rowNumber \in RowNumbers : \E val \in CellValues \cup { NoValue } :
          Add(rowNumber, val)
    \/ ColumnFreeze

\* threads that destroy leaf serializers
Finalizers == 1 .. NumFinalizers

ExtInit ==
    /\ objects = << >>
    /\ committed = FALSE
    /\ streams = << >>
    /\ writers = [ t \in Finalizers |-> [ pc |-> "idle", entry |-> 0 ] ]
    /\ wire = << >>
    /\ sliced = NoSlice
    /\ rdbuf = NoStream

\* TabularDatasetColumn::TabularDatasetColumn
ColInit ==
    /\ minRowNumber = 0 - 1
    /\ maxRowNumber = 0 - 1
    /\ isFrozen = FALSE
    /\ sparseIndexes = << >>
    /\ indexedVals = << >>
    /\ lastValue = NoValue
    /\ valueIndex = << >>
    /\ added = << >>

Init == FileInit /\ ZipInit /\ ExtInit /\ HandleInit /\ ColInit

\* leaf serializers of one tree destroyed by several threads
FinalizeNext ==
    \/ \E p \in 0 .. MaxStructs : \E n \in Elements : NewStructure(p, n)
    \/ \E t \in Finalizers : \E p \in 0 .. MaxStructs : \E n \in Elements :
          ThreadNewEntry(t, p, n)
    \/ \E e \in 1 .. Len(entries) : \E n \in 0 .. MaxPayloadLen :
          \E a \in EntryAlignments : EntryAllocateWritable(e, n, a)
    \/ \E r \in 1 .. Len(regions) :
          WriteRegion(r, Stamp(r, regions[r].length))
    \/ \E r \in 1 .. Len(regions) : EntryFreeze(r)
    \/ \E t \in Finalizers : DestroyEntry(t)
    \/ \E t \in Finalizers : ArchiveWriteHeader(t)
    \/ \E t \in Finalizers : ArchiveWriteData(t)

FileSpec == Init /\ [][FileNext]_vars

FinalizeSpec == Init /\ [][FinalizeNext]_vars

RegionSpec == Init /\ [][RegionNext]_vars

ZipSpec == Init /\ [][ZipNext]_vars

\* a thread inside allocateWritable holds the mutex and keeps running
ThreadStep(t) ==
    \/ ArenaAllocate(t) \/ ArenaBump(t) \/ ExpandLastArena(t)
    \/ CreateNewArena(t) \/ AllocateReturn(t)

FileLiveSpec ==
    Init /\ [][FileNext]_vars /\ \A t \in Threads : WF_vars(ThreadStep(t))

HandleSpec == Init /\ [][HandleNext]_vars

IndexSpec == Init /\ [][IndexNext]_vars

ColumnSpec == Init /\ [][ColNext]_vars

---------------------------------------------------------------------------
(***************************************************************************)
(* Properties of the FileSerializer (checked under FileSpec).              *)
(***************************************************************************)
Quiescent == \A t \in Threads : pc[t] = "idle"

Regions == { i \in 1 .. Len(returned) : returned[i].length > 0 }

\* region r lies in arena a, whose mapping is live, and a still maps the
\* file offset r was allocated at
InArena(r, a) ==
    /\ [ addr |-> a.addr, length |-> a.length ] \in mappings
    /\ a.addr <= r.data
    /\ r.data + r.length <= a.addr + a.length
    /\ a.startOffset + (r.data - a.addr) = r.offset

\* C1: until the serializer is destroyed, every region returned by an
\* earlier allocate_writable still lies, at the address it was returned at,
\* inside a live mapping of an arena, over the file bytes it was allocated
\* at, whatever grew or was created since.
C1_PointerStability ==
    ~destroyed =>
        \A i \in Regions :
            \E k \in 1 .. Len(arenas) : InArena(returned[i], arenas[k])

\* a region of the first arena, after that arena was grown in place, a
\* second in-place grow failed and a second arena was created
C1_Witness ==
    /\ ~destroyed
    /\ Len(arenas) = 2
    /\ arenas[1].length > ExpandFactor * page_size
    /\ \E i \in Regions : InArena(returned[i], arenas[1])
    /\ \E i \in Regions : InArena(returned[i], arenas[2])

\* C2: at every quiescent point the file length equals currentlyAllocated,
\* which equals the sum of the arena lengths.
C2_LengthInvariant ==
    (Quiescent /\ ~destroyed) =>
        /\ fileLen = currentlyAllocated
        /\ currentlyAllocated = SumLength(arenas)

\* C3: the regions returned to concurrent callers are pairwise disjoint, each
\* has the requested length and lies wholly inside one arena, and a thread is
\* inside allocateWritableImpl only while it holds the mutex.
C3_ConcurrentAllocation ==
    /\ \A i, j \in Regions :
          i # j => ~Overlaps(returned[i].data, returned[i].length,
                             returned[j].data, returned[j].length)
    /\ \A i \in 1 .. Len(returned) :
          /\ returned[i].length = returned[i].bytesRequired
          /\ (returned[i].length > 0 /\ ~destroyed) =>
                \E k \in 1 .. Len(arenas) :
                    /\ arenas[k].addr <= returned[i].data
                    /\ returned[i].data + returned[i].length
                          <= arenas[k].addr + arenas[k].length
    /\ \A t \in Threads : pc[t] \in InCritical => mutex = t

\* two threads were each served, one right behind the other in the same
\* arena
C3_Witness ==
    /\ Len(returned) = MaxCalls
    /\ Len(arenas) = 1
    /\ \A i \in 1 .. Len(returned) : returned[i].length > 0
    /\ returned[1].thread # returned[2].thread
    /\ returned[2].data = returned[1].data + returned[1].length
    /\ Quiescent /\ mutex = 0

\* a step in which ftruncate, mmap or mremap failed while thread t was
\* growing the last arena or creating a new one
GrowFailed(t) ==
    \/ pc[t] \in { "expand", "create" } /\ pc'[t] = "ret"
         /\ result'[t].kind = "IOError"
    \/ pc[t] = "expand" /\ pc'[t] = "create"

\* C4: a failed grow leaves the file length, currentlyAllocated and the
\* arena list as they were.
C4_FailedGrowRollsBack ==
    [][ \A t \in Threads :
          GrowFailed(t) =>
              /\ fileLen' = fileLen
              /\ currentlyAllocated' = currentlyAllocated
              /\ arenas' = arenas ]_vars

\* a step in which commit truncated the file
Committed == commits' = commits + 1 /\ failures' = failures /\ arenas # << >>

\* C5 (as stated): after commit the file size equals the sum of the bytes
\* allocated.
C5_FileSizeIsSumOfBytes ==
    [][ Committed => fileLen' = sumBytes ]_vars

\* C5 (amended): after a commit that finds an arena, the file ends where the
\* last arena's allocations end: its size is the bytes allocated, plus the
\* alignment padding, plus the unused tails of the arenas before the last,
\* and every region returned lies inside the file.
C5_CommitTruncation ==
    [][ Committed =>
          /\ fileLen' = sumBytes + sumPad + sumWaste
          /\ fileLen' = SumLength(SubSeq(arenas, 1, Len(arenas) - 1))
                          + back(arenas).currentOffset
          /\ \A i \in Regions :
                returned[i].offset + returned[i].length <= fileLen' ]_vars

\* a commit has cut the file below currentlyAllocated, with two arenas
\* behind it and more in the file than the bytes allocated
C5_Witness ==
    /\ commits > 0
    /\ Quiescent
    /\ Len(arenas) = 2
    /\ fileLen = realLength(arenas)
    /\ fileLen < currentlyAllocated
    /\ fileLen > sumBytes
    /\ sumBytes > 0

\* C6: every pointer returned for (n, a), by the FileSerializer and by the
\* MemorySerializer, is a multiple of max(a, pointer size).
C6_Alignment ==
    /\ \A i \in 1 .. Len(returned) :
          returned[i].data % Max(returned[i].alignment, PointerSize) = 0
    /\ \A r \in 1 .. Len(regions) :
          regions[r].data % Max(regions[r].alignment, PointerSize) = 0

---------------------------------------------------------------------------
(***************************************************************************)
(* Properties of freeze and of the container (checked under ZipSpec).      *)
(***************************************************************************)
\* C7: a frozen region has the pointer, the length and the handle of the
\* mutable region it was frozen from, and its bytes are the bytes written.
C7_FreezeRoundTrip ==
    /\ \A r \in 1 .. Len(regions) :
          regions[r].state = "frozen" =>
              /\ regions[r].frozen.data = regions[r].data
              /\ regions[r].frozen.length = regions[r].length
              /\ regions[r].frozen.handle = regions[r].handle
              /\ ReadMem(regions[r].frozen.data, regions[r].frozen.length)
                    = regions[r].written
    /\ \A i \in 1 .. Len(returned) :
          returned[i].state = "frozen" =>
              /\ returned[i].frozen.data = returned[i].data
              /\ returned[i].frozen.length = returned[i].length
              /\ returned[i].frozen.handle = returned[i].handle

\* a region with bytes in it was written and frozen
C7_Witness ==
    \E r \in 1 .. Len(regions) :
        /\ regions[r].state = "frozen"
        /\ regions[r].length > 0
        /\ regions[r].written = Stamp(r, regions[r].length)

\* the path a leaf serializer writes its entry at: this.path ++ name
LeafPath(e) == Append(itlPath(entries[e].itl), entries[e].entryName)

\* the leaves written, and those whose path no other leaf was written at
Leaves == { e \in 1 .. Len(entries) : entries[e].status = "done" }

UniqueLeaves ==
    { e \in Leaves : \A o \in Leaves : o # e => LeafPath(o) # LeafPath(e) }

\* the lookup found a region of the container whose bytes are b
Yields(found, b) == found.ok /\ ContainerSlice(found.region) = b

\* C8: once the container is read back, every leaf written at a path of its
\* own is found at that path, recursively and step by step, with the bytes
\* written through its serializer.
C8_RoundTrip ==
    /\ reader.state # "failed"
    /\ reader.state = "open" =>
          \A e \in UniqueLeaves :
              /\ Yields(getRegionRecursive(<< >>, LeafPath(e)),
                        entries[e].accum)
              /\ Yields(StepByStep(LeafPath(e)), entries[e].accum)

\* the round trip of the leaves written as at most one region
SingleRegionRoundTrip ==
    /\ reader.state # "failed"
    /\ reader.state = "open" =>
          \A e \in UniqueLeaves :
              Cardinality(RegionsOf(e)) <= 1 =>
                  /\ Yields(getRegionRecursive(<< >>, LeafPath(e)),
                            entries[e].accum)
                  /\ Yields(StepByStep(LeafPath(e)), entries[e].accum)

\* a container read back with a leaf that is also a prefix of another, one
\* of them with bytes and a name that needs quoting
SingleRegionWitness ==
    /\ reader.state = "open"
    /\ \E e, o \in UniqueLeaves :
          /\ Cardinality(RegionsOf(e)) <= 1
          /\ Cardinality(RegionsOf(o)) <= 1
          /\ Len(LeafPath(o)) = 2
          /\ LeafPath(e) = SubSeq(LeafPath(o), 1, 1)
          /\ entries[e].accum = << >>
          /\ entries[o].accum # << >>
          /\ ~isSimpleChar(entries[o].entryName[1])

\* the nodes of the reader's index that a leaf was indexed at
IndexedLeaves ==
    { p \in DOMAIN reader.index : p # << >> /\ reader.index[p].path = p }

\* C9: the region get_region returns for an indexed leaf is a slice of the
\* container, inside its bounds, with the handle of the container's mapping.
C9_ZeroCopy ==
    reader.state = "open" =>
        \A p \in IndexedLeaves :
            LET found == getRegion(SubSeq(p, 1, Len(p) - 1), p[Len(p)])
                offset == found.region.data - reader.region.data
            IN  /\ found.ok
                /\ 0 <= offset
                /\ offset + found.region.length <= reader.region.length
                /\ found.region.handle = reader.region.handle

\* a leaf with bytes, behind another entry of the container, was looked up
C9_Witness ==
    /\ reader.state = "open"
    /\ \E p \in IndexedLeaves :
          /\ reader.index[p].region.length > 0
          /\ reader.index[p].region.data > reader.region.data + HdrLen + 1
    /\ \E p \in IndexedLeaves : reader.index[p].region.length = 0

\* C10: a finalized leaf serializer has emitted exactly one entry, at
\* this.path ++ name, whose payload is the bytes of every region frozen
\* through it.
C10_OneEntryAccumulated ==
    \A e \in Leaves :
        /\ Cardinality({ k \in 1 .. Len(archive) : archive[k].by = e }) = 1
        /\ \A k \in 1 .. Len(archive) :
              archive[k].by = e =>
                  /\ archive[k].pathname = RenderPath(LeafPath(e))
                  /\ archive[k].data = entries[e].accum

---------------------------------------------------------------------------
(***************************************************************************)
(* Properties of newObject, commit and newStream (checked under ZipSpec).  *)
(***************************************************************************)
\* the entries of the archive written by leaf serializer e
EntriesBy(e) == { k \in 1 .. Len(archive) : archive[k].by = e }

\* C11: every newObject(name, value) has emitted the printed bytes of value
\* as an entry whose path is this.path ++ name.
C11_ObjectAtName ==
    \A o \in 1 .. Len(objects) :
        \E k \in EntriesBy(objects[o].entry) :
            /\ archive[k].data = objects[o].printed
            /\ archive[k].pathname
                  = RenderPath(Append(itlPath(objects[o].itl),
                                      objects[o].name))

\* C12: once commit() has returned on the root, the archive is closed.
C12_CommitCloses == committed => closed

---------------------------------------------------------------------------
(***************************************************************************)
(* Properties of concurrent finalization (checked under FinalizeSpec).     *)
(***************************************************************************)
\* the threads inside BaseItl::writeEntry
InFlight == { t \in Finalizers : writers[t].pc \in { "header", "data" } }

\* C13: at most one entry is in flight at a time, and every header the
\* archive received is followed at once by the payload of the same entry.
C13_EmissionSerialized ==
    /\ Cardinality(InFlight) <= 1
    /\ \A i \in 1 .. Len(wire) - 1 :
          wire[i].kind = "header" =>
              /\ wire[i + 1].kind = "data"
              /\ wire[i + 1].by = wire[i].by

---------------------------------------------------------------------------
(***************************************************************************)
(* Properties of the reconstituter's lookups (checked under ZipSpec).      *)
(***************************************************************************)
\* the paths the leaves were written at
WrittenPaths == { LeafPath(e) : e \in Leaves }

\* path is a proper prefix of a path written
HasChildren(path) ==
    \E w \in WrittenPaths :
        Len(w) > Len(path) /\ SubSeq(w, 1, Len(path)) = path

\* the reconstituters a client can hold: the root one and those under it
Reconstituters == DOMAIN reader.index

\* C14: get_region(name) returns a region only for a name that is a leaf at
\* this level.
C14_RegionOnlyForLeaf ==
    reader.state = "open" =>
        \A root \in Reconstituters : \A name \in ObjectNames :
            getRegion(root, name).ok => Append(root, name) \in WrittenPaths

\* C15: get_structure(name) returns a sub-structure only for a name that has
\* children at this level.
C15_StructureOnlyWithChildren ==
    reader.state = "open" =>
        \A root \in Reconstituters : \A name \in ObjectNames :
            getStructure(root, name).ok => HasChildren(Append(root, name))

\* C16: get_directory() has exactly one Entry for each child name at this
\* level, with a region getter exactly for the leaves and a sub-structure
\* getter exactly for the names that have children.
C16_Directory ==
    reader.state = "open" =>
        \A root \in Reconstituters :
            LET dir == getDirectory(root)
                names == { w[Len(root) + 1] : w \in
                             { v \in WrittenPaths :
                                 Len(v) > Len(root)
                                   /\ SubSeq(v, 1, Len(root)) = root } }
            IN  /\ { d.name : d \in dir } = names
                /\ \A n \in names :
                      Cardinality({ d \in dir : d.name = n }) = 1
                /\ \A d \in dir :
                      /\ d.getBlock <=> Append(root, d.name) \in WrittenPaths
                      /\ d.getStructure <=> HasChildren(Append(root, d.name))

\* a directory with a name that is a leaf of no bytes and a prefix at once
C16_Witness ==
    /\ reader.state = "open"
    /\ \E d \in getDirectory(<< >>) :
          /\ d.getBlock /\ d.getStructure
          /\ reader.index[<< d.name >>].region.length = 0
    /\ \E root \in Reconstituters : \E d \in getDirectory(root) :
          d.getBlock /\ ~d.getStructure

---------------------------------------------------------------------------
(***************************************************************************)
(* Properties of range and of the read-side stream (under RegionSpec).     *)
(***************************************************************************)
\* C17: range(start, end) succeeds exactly when 0 <= start <= end <= length,
\* and then returns the region of length end - start at data + start with
\* the parent's handle; otherwise it fails and returns no region.
C17_SliceBounds ==
    (sliced # NoSlice /\ sliced.op = "range") =>
        LET inBounds == /\ 0 <= sliced.start
                        /\ sliced.start <= sliced.end
                        /\ sliced.end <= sliced.region.length
        IN  /\ sliced.out.ok <=> inBounds
            /\ sliced.out.ok =>
                  sliced.out.region
                      = FrozenMemoryRegion(sliced.region.handle,
                                           sliced.region.data + sliced.start,
                                           sliced.end - sliced.start)
            /\ ~sliced.out.ok => sliced.out.region = NullRegion

\* a slice strictly inside its region was taken
C17_Witness ==
    /\ sliced # NoSlice /\ sliced.op = "range"
    /\ sliced.out.ok
    /\ 0 < sliced.start /\ sliced.start < sliced.end
    /\ sliced.end < sliced.region.length

\* C18: for a <= b <= length and 0 <= c <= d <= b - a, range(a, b).range(c, d)
\* is range(a + c, a + d): same pointer, same length, same handle.
C18_SliceComposition ==
    (/\ sliced # NoSlice /\ sliced.op = "compose"
     /\ sliced.a <= sliced.b /\ sliced.b <= sliced.region.length
     /\ 0 <= sliced.c /\ sliced.c <= sliced.d
     /\ sliced.d <= sliced.b - sliced.a) =>
        /\ sliced.twice.ok
        /\ sliced.once.ok
        /\ sliced.twice.region = sliced.once.region

\* a slice of a slice, neither starting where its parent starts
C18_Witness ==
    /\ sliced # NoSlice /\ sliced.op = "compose"
    /\ 0 < sliced.a /\ 0 < sliced.c /\ sliced.c < sliced.d
    /\ sliced.d <= sliced.b - sliced.a
    /\ sliced.b <= sliced.region.length
    /\ sliced.twice.ok

\* C19: the read position of the stream stays inside the region.
C19_SeekClamped ==
    rdbuf.state = "open" =>
        rdbuf.start <= rdbuf.gptr /\ rdbuf.gptr <= rdbuf.end

---------------------------------------------------------------------------
(***************************************************************************)
(* Properties of newStream (checked under ZipSpec).                        *)
(***************************************************************************)
\* C20: an open stream has touched nothing on its leaf serializer, which is
\* not finalized; a closed one has made exactly one region on it, frozen,
\* holding the bytes appended, and the entry emitted at this.path ++ name
\* holds exactly those bytes.
C20_StreamClose ==
    \A h \in 1 .. Len(streams) :
        LET e == streams[h].owner
        IN  /\ streams[h].state = "open" =>
                  /\ RegionsOf(e) = { }
                  /\ EntriesBy(e) = { }
            /\ streams[h].state = "closed" =>
                  /\ Cardinality(RegionsOf(e)) = 1
                  /\ \A r \in RegionsOf(e) :
                        /\ regions[r].state = "frozen"
                        /\ regions[r].length = Len(streams[h].buf)
                        /\ ReadMem(regions[r].frozen.data,
                                   regions[r].frozen.length)
                              = streams[h].buf
                  /\ ~crashed =>
                        /\ Cardinality(EntriesBy(e)) = 1
                        /\ \A k \in EntriesBy(e) :
                              /\ archive[k].data = streams[h].buf
                              /\ archive[k].pathname
                                    = RenderPath(LeafPath(e))

\* a stream with bytes in it, made under a sub-structure, was closed and its
\* entry emitted
C20_Witness ==
    \E h \in 1 .. Len(streams) :
        /\ streams[h].state = "closed"
        /\ streams[h].buf # << >>
        /\ entries[streams[h].owner].itl # 0
        /\ EntriesBy(streams[h].owner) # { }

---------------------------------------------------------------------------
(***************************************************************************)
(* Failures at the close of a stream (checked under ZipSpec).              *)
(***************************************************************************)
\* C21: closing a write-side stream never reports a failure to the caller:
\* when the allocation made at close fails, the close still returns and the
\* program goes on (the failure is kept for the next commit).
C21_CloseInfallible ==
    \A h \in 1 .. Len(streams) :
        streams[h].state = "failed" => ~crashed

---------------------------------------------------------------------------
(***************************************************************************)
(* Zero-length allocations.                                                *)
(***************************************************************************)
\* the FileSerializer's part (checked under FileSpec): a region of no bytes
\* has a null handle and null data, and its frozen form is empty
FileZeroLength ==
    \A i \in 1 .. Len(returned) :
        returned[i].bytesRequired = 0 =>
            /\ returned[i].handle = 0 /\ returned[i].length = 0
            /\ returned[i].state = "frozen" =>
                   returned[i].frozen = NullRegion

\* C22: allocate_writable(0, a) yields a region of length 0 with a null
\* handle, for every serializer; here the leaf serializers of the container
\* writer, which are MemorySerializers (checked under ZipSpec).
C22_ZeroLengthNullHandle ==
    \A r \in 1 .. Len(regions) :
        regions[r].length = 0 =>
            /\ regions[r].handle = 0
            /\ regions[r].state = "frozen" => regions[r].frozen.length = 0

---------------------------------------------------------------------------
(***************************************************************************)
(* Properties of mapFile and of handles (checked under HandleSpec).        *)
(***************************************************************************)
MapBlocks == { b \in 1 .. Len(blocks) : blocks[b].kind = "map" }

\* C23: for every (start_offset, length) passed to the file mapper the
\* mapping starts at start_offset rounded down to a page, its length is a
\* whole number of pages, it covers every byte of
\* [start_offset, start_offset + length), and the region returned points at
\* byte start_offset and has the requested length.
C23_MapCoversRequest ==
    \A b \in MapBlocks :
        LET blk == blocks[b]
        IN  /\ blk.offset = PageFloor(blk.startOffset)
            /\ blk.length % page_size = 0
            /\ blk.requested > 0 =>
                  /\ blk.addr # MAP_FAILED
                  /\ blk.offset + blk.length
                        >= blk.startOffset + blk.requested
            /\ \A c \in 1 .. Len(copies) :
                  copies[c].block = b /\ copies[c].by = "mapFile" =>
                      /\ copies[c].data
                            = blk.addr + (blk.startOffset - blk.offset)
                      /\ copies[c].length = blk.requested

---------------------------------------------------------------------------
(***************************************************************************)
(* Indexing a container (checked under IndexSpec).                         *)
(***************************************************************************)
\* the first block of directory entry d lies outside the container's region
Outside(d) ==
    ~(reader.region.data <= d.currentBlock
        /\ d.currentBlock < reader.region.data + reader.region.length)

\* no later entry of the directory has the pathname of entry i
LastOfName(i) ==
    \A j \in (i + 1) .. Len(reader.dir) :
        reader.dir[j].pathname # reader.dir[i].pathname

\* C24: an entry whose first data block lies outside the container's region
\* and whose length is not zero makes the construction fail; an entry of
\* length zero never does, and is indexed as an empty leaf at offset 0.
C24_IndexingEdgeCases ==
    reader.state # "none" =>
        /\ (\E i \in 1 .. Len(reader.dir) :
               reader.dir[i].length > 0 /\ Outside(reader.dir[i]))
              => reader.state = "failed"
        /\ (\A i \in 1 .. Len(reader.dir) :
               reader.dir[i].length = 0 \/ ~Outside(reader.dir[i]))
              => reader.state = "open"
        /\ reader.state = "open" =>
              \A i \in 1 .. Len(reader.dir) :
                  reader.dir[i].length = 0 /\ LastOfName(i) =>
                      LET path == ParsePath(reader.dir[i].pathname)
                      IN  /\ path \in DOMAIN reader.index
                          /\ reader.index[path].path = path
                          /\ reader.index[path].region
                                = FrozenMemoryRegion(reader.region.handle,
                                                     reader.region.data, 0)

\* a container with a deflated entry that is not empty was refused, and one
\* holding an empty entry whose block is null has it indexed
C24_Witness ==
    /\ reader.state = "failed"
    /\ \E i \in 1 .. Len(reader.dir) :
          /\ reader.dir[i].length > 0
          /\ reader.dir[i].currentBlock
                > reader.region.data + reader.region.length
    /\ \E i \in 1 .. Len(reader.dir) :
          reader.dir[i].length = 0 /\ Outside(reader.dir[i])

\* the region objects that hold a handle on block b and are not destroyed
Holders(b) ==
    { c \in 1 .. Len(copies) : copies[c].block = b /\ copies[c].live }

\* C25: the storage of a block (heap memory of a MemorySerializer, or a file
\* mapping) is allocated exactly as long as some region made from it, the
\* mutable one, a frozen one or a sub-slice, is not destroyed, in whatever
\* order they are destroyed.
C25_HandleKeepsStorage ==
    \A b \in 1 .. Len(blocks) :
        /\ blocks[b].live <=> Holders(b) # { }
        /\ blocks[b].live => blocks[b].use_count = Cardinality(Holders(b))

\* a heap block is still allocated for a sub-slice after the mutable and the
\* frozen region it came from were destroyed, and a mapping was released
\* after its last region went
C25_Witness ==
    /\ \E b \in 1 .. Len(blocks) :
          /\ blocks[b].kind = "heap" /\ blocks[b].live
          /\ \A c \in Holders(b) : copies[c].by = "range"
          /\ \E c \in 1 .. Len(copies) :
                copies[c].block = b /\ copies[c].by = "freeze"
                  /\ ~copies[c].live
    /\ \E b \in 1 .. Len(blocks) :
          /\ blocks[b].kind = "map" /\ ~blocks[b].live
          /\ blocks[b].addr # MAP_FAILED

---------------------------------------------------------------------------
(***************************************************************************)
(* Arenas of the FileSerializer (checked under FileSpec).                  *)
(***************************************************************************)
\* C26: arenas are only appended, and only the most recent one is grown or
\* allocated from: no step of allocate_writable changes the base address,
\* start offset, length or current offset of an arena that is not the last
\* one, and a step that appends an arena changes none of those it finds.
C26_OnlyLastArenaChanges ==
    [][ \A i \in 1 .. Len(arenas) :
          i <= Len(arenas')
            /\ (i < Len(arenas) \/ Len(arenas') > Len(arenas))
              => arenas'[i] = arenas[i] ]_vars

\* thread t's expandLastArena grows the last arena in this step
GrowsInPlace(t) ==
    /\ pc[t] = "expand"
    /\ Len(arenas') = Len(arenas)
    /\ back(arenas').length # back(arenas).length

\* C27: an in-place grow for a request of (bytes, alignment) extends the
\* file and the last arena by max(pages(bytes + alignment), 10000) whole
\* pages: the arena's length stays a multiple of the page size and the
\* allocation, tried again, fits.
C27_GrowAmount ==
    [][ \A t \in Threads :
          GrowsInPlace(t) =>
              LET amount == Max(pages(req[t].bytes + req[t].alignment),
                                ExpandFactor) * page_size
              IN  /\ back(arenas').length = back(arenas).length + amount
                  /\ fileLen' = fileLen + amount
                  /\ back(arenas').length % page_size = 0
                  /\ fits(back(arenas'), req[t].bytes, req[t].alignment)
      ]_vars

---------------------------------------------------------------------------
(***************************************************************************)
(* The retry loop of allocateWritableImpl (checked under FileLiveSpec).    *)
(***************************************************************************)
InLoop(t) == pc[t] \in { "try", "bump", "expand", "create" }

\* the loop is always left: every call that entered it reaches its return
AllocationReturns ==
    \A t \in Threads : InLoop(t) ~> pc[t] = "ret"

\* C28: for a request of bytes > 0 the retry loop (bump-allocate, else grow
\* in place, else create an arena, retry) ends with a successful allocation,
\* unless an ftruncate or an mmap failed (IOError), whether or not the
\* in-place remap succeeds.
C28_AllocationSucceeds ==
    \A t \in Threads :
        InLoop(t) ~> (pc[t] = "ret" /\ result[t].kind \in { "ok", "IOError" })

---------------------------------------------------------------------------
(***************************************************************************)
(* Order of finalization in the container writer (checked under ZipSpec).  *)
(***************************************************************************)
\* a leaf serializer is destroyed in this step and hands its entry to the
\* root's writeEntry: directly, or as the baggage of a stream that is closed
LeafWrites ==
    \/ \E e \in 1 .. Len(entries) : FinalizeEntry(e)
    \/ \E h \in 1 .. Len(streams) :
          CloseStream(h) /\ streams'[h].state = "closed"

\* C29: no entry is written to the root's archive after the archive was
\* closed or the root destroyed: in whatever order the root and the leaf
\* serializers and stream sinks are finalized, each leaf's write happens
\* while the archive is open.
C29_NoWriteAfterClose ==
    [][ LeafWrites => ~closed ]_vars

---------------------------------------------------------------------------
(***************************************************************************)
(* Properties of TabularDatasetColumn (checked under ColumnSpec).          *)
(***************************************************************************)
\* the add calls that recorded a sparse entry, in order: one for each entry
Recorded ==
    SelectSeq(added, LAMBDA c : c.outcome = "recorded")

\* C30: after any sequence of add calls with non-decreasing row numbers,
\* every sparse entry (row - minRowNumber, index) has indexedVals[index]
\* equal to the first value added for that row that was not ignored.
C30_SparseEntryValue ==
    /\ Len(Recorded) = Len(sparseIndexes)
    /\ \A k \in 1 .. Len(sparseIndexes) :
          /\ sparseIndexes[k][1] = Recorded[k].row - minRowNumber
          /\ sparseIndexes[k][2] + 1 \in 1 .. Len(indexedVals)
          /\ indexedVals[sparseIndexes[k][2] + 1] = Recorded[k].val

\* the column's fields that hold its rows and values
ColumnData == << minRowNumber, maxRowNumber, sparseIndexes, indexedVals >>

\* C31: once freeze has returned the column is immutable: every later add,
\* with an empty value or not, and every later freeze fails an assertion
\* and leaves minRowNumber, maxRowNumber, sparseIndexes and indexedVals
\* unchanged.
C31_FrozenIsImmutable ==
    [][ isFrozen =>
          /\ ColumnData' = ColumnData
          /\ added' # added =>
                added'[Len(added')].outcome \in { "thrown", "freeze thrown" }
      ]_vars

=============================================================================
